---- MODULE Spec2Model ----
(***************************************************************************)
(* Screen-signature detection (navigation/detector.py, signatures/base.py) *)
(* and graph navigation (navigation/navigator.py, navigation/graph.py),    *)
(* and the popup/toast watcher of one device (mcp_server.py).              *)
(*                                                                         *)
(* Strings are TLA+ strings; the string helpers below are the Python       *)
(* string operations the code uses (in, startswith, split, strip, lower).  *)
(* Scores are exact fractions [num, den]: 1.0 is num = den, 0.0 is num = 0.*)
(***************************************************************************)
EXTENDS Naturals, Integers, Sequences, FiniteSets, TLC

VARIABLES
    \* ---- _score_signature called on one signature and one element set
    sig,            \* the ScreenSignature under test
    elements,       \* the element set (fingerprints) it is scored on
    scoreResult,    \* NotCalled before the call, then the value returned
    \* ---- find_path and has_path called on one graph
    graph,          \* the navigation graph: screen id -> list of edges
    pathFrom,       \* from_screen of the last call
    pathTo,         \* to_screen of the last call
    pathResult,     \* what find_path returned
    hasPathResult,  \* what has_path returned for the same arguments
    pathTargets,    \* the targets argument of find_path_to_any
    \* ---- one ScreenNavigator and one call of navigate_to
    navPc,          \* where the call stands: idle, detect, exec, verify,
                    \* exhausted (after the attempt loop), done (returned)
    navTarget,      \* target
    maxAttempts,    \* max_attempts
    verifyEachStep, \* verify_each_step
    attempt,        \* the loop variable attempt
    startScreen,    \* start_screen
    currentScreen,  \* current_screen
    navPath,        \* path.steps of the attempt's plan
    stepIdx,        \* i, the index of the step in hand
    allStepsTaken,  \* all_steps_taken
    recoveryAttempts, \* recovery_attempts
    navResult,      \* the NavigationResult returned
    totalNavigations,      \* self._total_navigations
    successfulNavigations, \* self._successful_navigations
    totalStepsExecuted,    \* self._total_steps_executed
    \* what the device and the detector were asked during the call
    lastDetection,  \* screen_id of the latest detect_screen
    firstDetection, \* screen_id detected by attempt 1
    detectCalls,    \* number of detect_screen calls
    actionsExecuted, \* number of _execute_action calls
    \* ---- one ScreenDetector, its clock, and its latest detect_screen call
    cachedHierarchy, \* self._cached_hierarchy
    cacheTimestamp,  \* self._cache_timestamp, in ms
    cachedElements,  \* self._cached_elements
    detectionCount,  \* self._detection_count
    unknownCount,    \* self._unknown_count
    now,             \* time.time() * 1000
    detCallNo,       \* number of detect_screen calls made
    detCall,         \* the arguments of the latest call
    detScoring,      \* the scoring stage of the latest call: the element
                     \* set and the candidate signatures it scored
    detResult,       \* the ScreenDetectionResult it returned
    \* ---- the popup watcher of one device (serial), its foreground caller
    \* and its watcher threads
    popup_patterns,  \* _popup_patterns[serial], or Absent
    popup_history,   \* _popup_history[serial] (a deque), or Absent
    popup_threads,   \* _popup_threads[serial]: a thread, or Absent
    popup_enabled,   \* _popup_enabled[serial]: a thread's stop event, or Absent
    popup_lock,      \* _popup_lock: TRUE while a call holds it across steps
    default_patterns_loaded, \* _default_patterns_loaded
    patternsFile,    \* what popup_patterns.json holds: its "patterns" list
    driverCached,    \* get_driver's lru_cache holds the driver of serial
    loops,           \* the watcher threads started so far, in order: each
                     \* one's position, locals and stop event
    callPc,          \* where the foreground call stands (idle between calls)
    callsMade,       \* number of tool calls started
    callBudget,      \* number of tool calls the run is followed for
    recordBudget,    \* number of history records the run is followed for
    appended,        \* the records appended to the history since it was
                     \* last cleared, in order
    clock,           \* number of records built so far (their timestamp)
    \* ---- what the detector asked of the device and got
    dumpCalls,       \* number of device.dump_hierarchy() calls the latest
                     \* _get_ui_hierarchy call made
    snapshot,        \* what the latest _get_ui_hierarchy call returned
    \* ---- one call of ScreenNavigator.recover_to_safe_state
    recPc,           \* where the call stands: idle, preferred (in its first
                     \* navigate_to), fallback (in its second), done
    recContext,      \* context
    recDetection,    \* detection.screen_id
    recResult,       \* the NavigationResult returned
    \* ---- one SignatureRegistry and the register calls made on it
    regSignatures,   \* self._signatures
    regByScreenId,   \* self._by_screen_id
    regLast,         \* per app, the list given to its latest register call
    regCalls,        \* number of register calls made
    \* ---- one call of search_for_keyword
    srchPc,          \* where the call stands: idle, detect, navigate,
                     \* search_bar, type, results, switch, final, handler
                     \* (in the except clause), done (returned), raised
    srchEnsureReels, \* ensure_reels
    srchCurrent,     \* current.screen_id
    srchResultType,  \* result_type, Unbound before its first assignment
    srchTries,       \* iterations of the stabilising loop begun
    srchError,       \* the exception raised inside the try block
    srchLastDetect,  \* what the latest detect_screen of the call gave
    srchResult,      \* the SearchResult returned
    \* ---- one call of ScreenNavigator._execute_step on its own
    stepCall,        \* its actions, what the device did on each, and
                     \* what the call returned
    \* ---- the watcher loop's handling of one pattern on its own
    handled,         \* the pattern, what the device showed, and what
                     \* the loop did with it
    \* ---- threads calling detect_screen of the one detector
    callers          \* each one's position in the call, its number of
                     \* calls, and its locals hierarchy and elements

scoreVars == <<sig, elements, scoreResult>>
pathVars == <<graph, pathFrom, pathTo, pathResult, hasPathResult, pathTargets>>
navVars == <<navPc, navTarget, maxAttempts, verifyEachStep, attempt, startScreen,
             currentScreen, navPath, stepIdx, allStepsTaken, recoveryAttempts,
             navResult, totalNavigations, successfulNavigations,
             totalStepsExecuted, lastDetection, firstDetection, detectCalls,
             actionsExecuted>>
detVars == <<cachedHierarchy, cacheTimestamp, cachedElements, detectionCount,
             unknownCount, now, detCallNo, detCall, detScoring, detResult>>
popVars == <<popup_patterns, popup_history, popup_threads, popup_enabled,
             popup_lock, default_patterns_loaded, patternsFile, driverCached,
             loops, callPc, callsMade, callBudget, recordBudget, appended,
             clock>>
recVars == <<recPc, recContext, recDetection, recResult>>
regVars == <<regSignatures, regByScreenId, regLast, regCalls>>
dumpVars == <<dumpCalls, snapshot>>
srchVars == <<srchPc, srchEnsureReels, srchCurrent, srchResultType, srchTries,
              srchError, srchLastDetect, srchResult>>
stepVars == <<stepCall>>
handleVars == <<handled>>
raceVars == <<callers>>
extVars == <<dumpVars, recVars, regVars, srchVars, stepVars, handleVars, raceVars>>
\* all of them but one group
exceptDump == <<recVars, regVars, srchVars, stepVars, handleVars, raceVars>>
exceptRec == <<dumpVars, regVars, srchVars, stepVars, handleVars, raceVars>>
exceptReg == <<dumpVars, recVars, srchVars, stepVars, handleVars, raceVars>>
exceptSrch == <<dumpVars, recVars, regVars, stepVars, handleVars, raceVars>>
exceptStep == <<dumpVars, recVars, regVars, srchVars, handleVars, raceVars>>
exceptRace == <<dumpVars, recVars, regVars, srchVars, stepVars, handleVars>>
exceptHandle == <<dumpVars, recVars, regVars, srchVars, stepVars, raceVars>>
vars == <<scoreVars, pathVars, navVars, detVars, popVars, extVars>>

NotCalled == [called |-> FALSE]
Returned(value) == [called |-> TRUE, ret |-> value]

\* the variables of a component that a specification does not exercise
ScoreIdle ==
    /\ sig = [screen_id |-> "none"]
    /\ elements = {}
    /\ scoreResult = NotCalled

NoScreen == "<none>"

\* Python's None where a string is expected
PyNone == "<None>"

\* a navigator after __init__, no call made
NavIdle ==
    /\ navPc = "idle"
    /\ navTarget = NoScreen
    /\ maxAttempts = 0
    /\ verifyEachStep = FALSE
    /\ attempt = 0
    /\ startScreen = NoScreen
    /\ currentScreen = NoScreen
    /\ navPath = <<>>
    /\ stepIdx = 0
    /\ allStepsTaken = <<>>
    /\ recoveryAttempts = 0
    /\ navResult = NotCalled
    /\ totalNavigations = 0
    /\ successfulNavigations = 0
    /\ totalStepsExecuted = 0
    /\ lastDetection = NoScreen
    /\ firstDetection = NoScreen
    /\ detectCalls = 0
    /\ actionsExecuted = 0

PathIdle ==
    /\ graph = <<>>
    /\ pathFrom = "none"
    /\ pathTo = "none"
    /\ pathResult = NotCalled
    /\ hasPathResult = NotCalled
    /\ pathTargets = {}

CACHE_TTL_MS == 500

\* self._cached_hierarchy is None
NoHierarchy == [none |-> TRUE]

\* a detector after __init__, no call made; the clock reads a time at which
\* the initial timestamp 0 is older than the TTL
DetIdle ==
    /\ cachedHierarchy = NoHierarchy
    /\ cacheTimestamp = 0
    /\ cachedElements = {}
    /\ detectionCount = 0
    /\ unknownCount = 0
    /\ now = CACHE_TTL_MS
    /\ detCallNo = 0
    /\ detCall = NotCalled
    /\ detScoring = NotCalled
    /\ detResult = NotCalled

\* a dict entry: the key is absent, or present with a value
Absent == [present |-> FALSE]
Present(value) == [present |-> TRUE, value |-> value]

\* the variables of the further operations, none of them called
\* the threads that call detect_screen of the detector, each between calls
MaxCallers == 2

CallerIds == 1..MaxCallers

IdleCaller == [pc |-> "idle", calls |-> 0, hierarchy |-> NoHierarchy, elements |-> {}]

ExtIdle ==
    /\ dumpCalls = 0
    /\ snapshot = NotCalled
    /\ recPc = "idle"
    /\ recContext = "none"
    /\ recDetection = NoScreen
    /\ recResult = NotCalled
    /\ regSignatures = <<>>
    /\ regByScreenId = <<>>
    /\ regLast = <<>>
    /\ regCalls = 0
    /\ srchPc = "idle"
    /\ srchEnsureReels = FALSE
    /\ srchCurrent = NoScreen
    /\ srchResultType = "<unbound>"
    /\ srchTries = 0
    /\ srchError = NotCalled
    /\ srchLastDetect = NotCalled
    /\ srchResult = NotCalled
    /\ stepCall = NotCalled
    /\ handled = NotCalled
    /\ callers = [c \in CallerIds |-> IdleCaller]

\* the popup state of a device no tool was called on and no driver was made for
PopIdle ==
    /\ popup_patterns = Absent
    /\ popup_history = Absent
    /\ popup_threads = Absent
    /\ popup_enabled = Absent
    /\ popup_lock = FALSE
    /\ default_patterns_loaded = FALSE
    /\ patternsFile = <<>>
    /\ driverCached = FALSE
    /\ loops = <<>>
    /\ callPc = "idle"
    /\ callsMade = 0
    /\ callBudget = 0
    /\ recordBudget = 0
    /\ appended = <<>>
    /\ clock = 0

(***************************************************************************)
(* Python string operations                                                *)
(***************************************************************************)
StartsWith(s, p) == Len(s) >= Len(p) /\ SubSeq(s, 1, Len(p)) = p

\* Python's "sub in s"
StrContains(s, sub) ==
    \E i \in 1..(Len(s) - Len(sub) + 1) : SubSeq(s, i, i + Len(sub) - 1) = sub

\* s[n:]
DropPrefix(s, n) == SubSeq(s, n + 1, Len(s))

UpperChars == <<"A","B","C","D","E","F","G","H","I","J","K","L","M",
                "N","O","P","Q","R","S","T","U","V","W","X","Y","Z">>
LowerChars == <<"a","b","c","d","e","f","g","h","i","j","k","l","m",
                "n","o","p","q","r","s","t","u","v","w","x","y","z">>

IsUpperChar(c) == \E i \in 1..26 : UpperChars[i] = c

LowerChar(c) ==
    IF IsUpperChar(c)
    THEN LowerChars[CHOOSE i \in 1..26 : UpperChars[i] = c]
    ELSE c

RECURSIVE Lower(_)
Lower(s) ==
    IF Len(s) = 0 THEN ""
    ELSE LowerChar(SubSeq(s, 1, 1)) \o Lower(DropPrefix(s, 1))

\* s.find(sub, i - 1) + 1: the first occurrence of sub in s at or after
\* position i, 0 when there is none
RECURSIVE FindFrom(_, _, _)
FindFrom(s, sub, i) ==
    IF i + Len(sub) - 1 > Len(s) THEN 0
    ELSE IF SubSeq(s, i, i + Len(sub) - 1) = sub THEN i
    ELSE FindFrom(s, sub, i + 1)

FirstIndex(s, sub) == FindFrom(s, sub, 1)

\* s.split(sep)
RECURSIVE Split(_, _)
Split(s, sep) ==
    LET i == FirstIndex(s, sep) IN
    IF i = 0 THEN <<s>>
    ELSE <<SubSeq(s, 1, i - 1)>> \o Split(DropPrefix(s, i + Len(sep) - 1), sep)

\* s.split(sep)[-1]
LastPart(s, sep) == LET parts == Split(s, sep) IN parts[Len(parts)]

\* s.strip() for blanks
RECURSIVE Strip(_)
Strip(s) ==
    IF Len(s) = 0 THEN s
    ELSE IF SubSeq(s, 1, 1) = " " THEN Strip(DropPrefix(s, 1))
    ELSE IF SubSeq(s, Len(s), Len(s)) = " " THEN Strip(SubSeq(s, 1, Len(s) - 1))
    ELSE s

(***************************************************************************)
(* ScreenDetector._selector_matches                                        *)
(***************************************************************************)
\* one selector without " OR "
SimpleSelectorMatches(selector, elems) ==
    IF StartsWith(selector, "contains:")
    THEN LET search_text == Lower(DropPrefix(selector, 9)) IN
         \E elem \in elems : StrContains(Lower(elem), search_text)
    ELSE IF StrContains(selector, ":id/")
    THEN LET id_part == LastPart(selector, ":id/") IN
         \E elem \in elems :
            \/ StartsWith(elem, "resource-id:") /\ StrContains(elem, ":id/" \o id_part)
            \/ StartsWith(elem, "id:") /\ elem = "id:" \o id_part
    ELSE IF StartsWith(selector, "id:")
    THEN LET id_part == DropPrefix(selector, 3) IN
         \E elem \in elems :
            \/ StartsWith(elem, "resource-id:") /\ StrContains(elem, ":id/" \o id_part)
            \/ elem = selector
    ELSE IF StartsWith(selector, "content-desc:") THEN selector \in elems
    ELSE IF StartsWith(selector, "text:") THEN selector \in elems
    ELSE IF IsUpperChar(SubSeq(selector, 1, 1)) /\ ~StrContains(selector, ":")
    THEN ("class-short:" \o selector) \in elems
    ELSE \/ ("content-desc:" \o selector) \in elems
         \/ ("text:" \o selector) \in elems
         \/ ("id:" \o selector) \in elems

\* " OR " splits the selector; each part is stripped and matched on its own
\* (a part holds no " OR " any more, so the recursion of the code ends there)
SelectorMatches(selector, elems) ==
    IF StrContains(selector, " OR ")
    THEN LET parts == Split(selector, " OR ") IN
         \E k \in 1..Len(parts) : SimpleSelectorMatches(Strip(parts[k]), elems)
    ELSE SimpleSelectorMatches(selector, elems)

(***************************************************************************)
(* ScreenDetector._extract_elements: the fingerprints of one snapshot.     *)
(* A snapshot is the set of its nodes; a node is its attributes, ""        *)
(* standing for an attribute the node does not carry.                      *)
(***************************************************************************)
NodeElements(node) ==
    LET resource_id  == node.resource_id
        content_desc == node.content_desc
        text         == node.text
        class_name   == node.class
    IN  (IF resource_id # ""
         THEN {"resource-id:" \o resource_id}
              \cup (IF StrContains(resource_id, ":id/")
                    THEN {"id:" \o LastPart(resource_id, ":id/")} ELSE {})
         ELSE {})
        \cup (IF content_desc # ""
              THEN {"content-desc:" \o content_desc,
                    "content-desc-lower:" \o Lower(content_desc)}
              ELSE {})
        \cup (IF text # ""
              THEN {"text:" \o text, "text-lower:" \o Lower(text)}
              ELSE {})
        \cup (IF class_name # ""
              THEN {"class:" \o class_name}
                   \cup (IF StrContains(class_name, ".")
                         THEN {"class-short:" \o LastPart(class_name, ".")} ELSE {})
              ELSE {})
        \cup (IF node.clickable = "true"
              THEN (IF content_desc # "" THEN {"clickable:" \o content_desc} ELSE {})
                   \cup (IF text # "" THEN {"clickable-text:" \o text} ELSE {})
              ELSE {})

ExtractFresh(hierarchy) == UNION {NodeElements(node) : node \in hierarchy}

(***************************************************************************)
(* ScreenDetector._score_signature                                         *)
(***************************************************************************)
Prefixed(prefix, sels) == [k \in 1..Len(sels) |-> prefix \o sels[k]]

MatchingOf(sels, elems) == SelectSeq(sels, LAMBDA s : SelectorMatches(s, elems))

AnyMatches(sels, elems) == \E k \in 1..Len(sels) : SelectorMatches(sels[k], elems)

ZeroScore == [score |-> [num |-> 0, den |-> 1], matched |-> <<>>]

\* lines 284-286 and 291-293: a forbidden selector matches
ForbiddenHit_Dropped(signature, elems) == FALSE

ForbiddenHit(signature, elems) == AnyMatches(signature.forbidden, elems)

\* line 288: the score of a unique match
UniqueScore_Half == [num |-> 1, den |-> 2]

UniqueScore == [num |-> 1, den |-> 1]

\* line 303: required selectors are declared and none of them matches
NoRequiredMatch_Dropped(signature, elems) == FALSE

NoRequiredMatch(signature, elems) ==
    Len(signature.required) > 0 /\ Len(MatchingOf(signature.required, elems)) = 0

\* line 324: final_score = min(1.0, base_score + optional_boost), the sum
\* given as the fraction sum / den
FinalScore_Uncapped(sum, den) == [num |-> sum, den |-> den]

FinalScore(sum, den) == [num |-> IF sum > den THEN den ELSE sum, den |-> den]

ScoreSignature(signature, elems) ==
    LET uniq == MatchingOf(signature.unique, elems)
        req  == MatchingOf(signature.required, elems)
        opt  == MatchingOf(signature.optional, elems)
        R    == Len(signature.required)
        O    == Len(signature.optional)
        Od   == IF O > 0 THEN O ELSE 1
        Rd   == IF R > 0 THEN R ELSE 1
        den  == 10 * Rd * Od
        \* base_score = required_matches / len(required), or 0.5
        base == IF R > 0 THEN 10 * Len(req) * Od ELSE 5 * Od
        \* optional_boost = 0.1 * (optional_matches / len(optional)), or 0.0
        boost == IF O > 0 THEN Len(opt) * Rd ELSE 0
    IN  IF Len(uniq) > 0
        THEN IF ForbiddenHit(signature, elems)
             THEN ZeroScore
             ELSE [score |-> UniqueScore, matched |-> <<"unique:" \o uniq[1]>>]
        ELSE IF ForbiddenHit(signature, elems) THEN ZeroScore
        ELSE IF NoRequiredMatch(signature, elems) THEN ZeroScore
        ELSE [score |-> FinalScore(base + boost, den),
              matched |-> Prefixed("required:", req) \o Prefixed("optional:", opt)]

IsZero(score) == score.num = 0
IsOne(score) == score.num = score.den

(***************************************************************************)
(* Inputs of the scoring check: signatures over a pool of selectors taken  *)
(* from signatures/instagram.py, element sets extracted from snapshots     *)
(* over a pool of nodes.                                                   *)
(***************************************************************************)
MaxSelectors == 2

SelectorPool == <<":id/row_feed_button_like",
                  "text:Your story",
                  "content-desc:Like OR content-desc:Unlike">>

\* the selector lists: the sub-lists of the pool of at most MaxSelectors entries
SelectorLists ==
    {SelectSeq(SelectorPool, LAMBDA s : s \in chosen) :
        chosen \in {c \in SUBSET {SelectorPool[k] : k \in 1..Len(SelectorPool)} :
                        Cardinality(c) <= MaxSelectors}}

Node(rid, desc, text, cls, clickable) ==
    [resource_id |-> rid, content_desc |-> desc, text |-> text,
     class |-> cls, clickable |-> clickable]

NodePool ==
    {Node("com.instagram.android:id/row_feed_button_like", "", "",
          "android.widget.ImageView", "true"),
     Node("", "", "Your story", "android.widget.TextView", "false"),
     Node("", "Unlike", "", "android.widget.Button", "true")}

Snapshots == SUBSET NodePool

\* ScreenSignature.__post_init__: required or unique must be declared
ValidSignature(s) == Len(s.required) > 0 \/ Len(s.unique) > 0

ScoreSignatures ==
    {s \in [app_id : {"instagram"}, screen_id : {"home_feed"}, priority : {25},
            required : SelectorLists, forbidden : SelectorLists,
            unique : SelectorLists, optional : SelectorLists] : ValidSignature(s)}

ScoreInit ==
    /\ sig \in ScoreSignatures
    /\ elements \in {ExtractFresh(h) : h \in Snapshots}
    /\ scoreResult = NotCalled
    /\ PathIdle
    /\ NavIdle
    /\ DetIdle
    /\ PopIdle /\ ExtIdle

ScoreCall ==
    /\ scoreResult = NotCalled
    /\ scoreResult' = Returned(ScoreSignature(sig, elements))
    /\ UNCHANGED <<sig, elements>>
    /\ UNCHANGED <<pathVars, navVars, detVars, popVars, extVars>>

ScoreNext == ScoreCall

ScoreSpec == ScoreInit /\ [][ScoreNext]_vars

(***************************************************************************)
(* Properties of _score_signature                                          *)
(***************************************************************************)
ScoreOf == scoreResult.ret.score

\* C1: whenever a forbidden selector of the signature matches the element
\* set, the returned score is 0, whatever the unique, required and optional
\* selectors match.
C1_ForbiddenAlwaysWins ==
    (scoreResult.called /\ AnyMatches(sig.forbidden, elements)) => IsZero(ScoreOf)

\* a scored signature with a matching forbidden selector next to a matching
\* unique, required and optional selector
C1_Witness ==
    /\ scoreResult.called
    /\ AnyMatches(sig.forbidden, elements)
    /\ AnyMatches(sig.unique, elements)
    /\ AnyMatches(sig.required, elements)
    /\ AnyMatches(sig.optional, elements)
    /\ IsZero(ScoreOf)

\* C2: whenever a unique selector matches and no forbidden selector matches,
\* the returned score is exactly 1.0.
C2_UniqueScoresOne ==
    (/\ scoreResult.called
     /\ AnyMatches(sig.unique, elements)
     /\ ~AnyMatches(sig.forbidden, elements)) => IsOne(ScoreOf)

\* a unique match scoring 1.0 although required selectors are declared and
\* none of them matches, and forbidden selectors are declared
C2_Witness ==
    /\ scoreResult.called
    /\ AnyMatches(sig.unique, elements)
    /\ Len(sig.forbidden) > 0 /\ ~AnyMatches(sig.forbidden, elements)
    /\ Len(sig.required) > 0 /\ ~AnyMatches(sig.required, elements)
    /\ IsOne(ScoreOf)

\* C3 as stated: required selectors declared and none of them matching gives
\* score 0 (this is what a matching unique selector refutes).
C3_Original ==
    (/\ scoreResult.called
     /\ Len(sig.required) > 0
     /\ ~AnyMatches(sig.required, elements)) => IsZero(ScoreOf)

\* C3 amended: required selectors declared, none of them matching and no
\* unique selector matching gives score 0, even if optional selectors match.
C3_NoRequiredNoUniqueScoresZero ==
    (/\ scoreResult.called
     /\ Len(sig.required) > 0
     /\ ~AnyMatches(sig.required, elements)
     /\ ~AnyMatches(sig.unique, elements)) => IsZero(ScoreOf)

\* no required and no unique selector matches, nothing is forbidden, an
\* optional selector matches, and the score is 0
C3_Witness ==
    /\ scoreResult.called
    /\ Len(sig.required) > 0 /\ ~AnyMatches(sig.required, elements)
    /\ ~AnyMatches(sig.unique, elements)
    /\ ~AnyMatches(sig.forbidden, elements)
    /\ AnyMatches(sig.optional, elements)
    /\ IsZero(ScoreOf)

(***************************************************************************)
(* navigation/graph.py: actions, edges, the two sub-graphs and their merge *)
(* Costs are the whole numbers of graph.py (all 1.0); a reliability is in  *)
(* percent (0.98 is 98); a path's reliability, a product, is the list of   *)
(* its factors in percent (the empty list is 1.0).                         *)
(* An action without target (press_back) has target "".                    *)
(***************************************************************************)
Action(action_type, target) == [action_type |-> action_type, target |-> target]

Edge(to_screen, actions, cost, reliability) ==
    [to_screen |-> to_screen, actions |-> actions,
     cost |-> cost, reliability |-> reliability]

LOGIN_FLOW_GRAPH ==
    "login_page" :> <<
        Edge("login_password", <<Action("click_element", "//*[@resource-id[contains(., 'login_username')]]")>>, 1, 95)>>
    @@ "login_save_info" :> <<
        Edge("home_feed", <<Action("click_text", "Not now")>>, 1, 98),
        Edge("home_feed", <<Action("click_text", "Not Now")>>, 1, 95)>>
    @@ "notifications_prompt" :> <<
        Edge("home_feed", <<Action("click_text", "Not Now")>>, 1, 98)>>

MAIN_APP_GRAPH ==
    "home_feed" :> <<
        Edge("explore_grid", <<Action("click_tab", "Search and explore")>>, 1, 98),
        Edge("reels_tab", <<Action("click_tab", "Reels")>>, 1, 98),
        Edge("profile_page", <<Action("click_tab", "Profile")>>, 1, 98),
        Edge("dm_inbox", <<Action("click_content_desc", "Direct message button, Double tap for direct messages")>>, 1, 95),
        Edge("create_post_select", <<Action("click_tab", "Create")>>, 1, 95)>>
    @@ "explore_grid" :> <<
        Edge("home_feed", <<Action("click_tab", "Home")>>, 1, 98),
        Edge("search_input", <<Action("click_element", "//*[contains(@resource-id, 'action_bar_search_edit_text')]")>>, 1, 98),
        Edge("reels_tab", <<Action("click_tab", "Reels")>>, 1, 98),
        Edge("profile_page", <<Action("click_tab", "Profile")>>, 1, 98)>>
    @@ "search_results_reels" :> <<
        Edge("explore_grid", <<Action("press_back", "")>>, 1, 95),
        Edge("reel_viewing", <<Action("click_element", "//*[contains(@resource-id, 'image_button')]")>>, 1, 90)>>
    @@ "search_results_accounts" :> <<
        Edge("explore_grid", <<Action("press_back", "")>>, 1, 95)>>
    @@ "search_results_tags" :> <<
        Edge("explore_grid", <<Action("press_back", "")>>, 1, 95)>>
    @@ "search_input" :> <<
        Edge("explore_grid", <<Action("press_back", "")>>, 1, 98)>>
    @@ "reel_viewing" :> <<
        Edge("explore_grid", <<Action("press_back", "")>>, 1, 90),
        Edge("comments_view", <<Action("click_content_desc", "Comment")>>, 1, 95),
        Edge("likes_page", <<Action("click_element", "//*[contains(@resource-id, 'like_count')]")>>, 1, 85),
        Edge("profile_page", <<Action("click_element", "//*[contains(@resource-id, 'clips_author_profile_pic') or contains(@resource-id, 'row_feed_photo_profile_imageview')]")>>, 1, 90)>>
    @@ "reels_tab" :> <<
        Edge("home_feed", <<Action("click_tab", "Home")>>, 1, 98),
        Edge("explore_grid", <<Action("click_tab", "Search and explore")>>, 1, 98),
        Edge("comments_view", <<Action("click_content_desc", "Comment")>>, 1, 95)>>
    @@ "profile_page" :> <<
        Edge("home_feed", <<Action("click_tab", "Home")>>, 1, 98),
        Edge("explore_grid", <<Action("click_tab", "Search and explore")>>, 1, 98),
        Edge("profile_followers", <<Action("click_element", "//*[contains(@resource-id, 'row_profile_header_followers_container')]")>>, 1, 90),
        Edge("profile_following", <<Action("click_element", "//*[contains(@resource-id, 'row_profile_header_following_container')]")>>, 1, 90)>>
    @@ "comments_view" :> <<
        Edge("reel_viewing", <<Action("press_back", "")>>, 1, 98)>>
    @@ "likes_page" :> <<
        Edge("reel_viewing", <<Action("press_back", "")>>, 1, 98)>>
    @@ "share_sheet" :> <<
        Edge("reel_viewing", <<Action("press_back", "")>>, 1, 98)>>
    @@ "peek_view" :> <<
        Edge("explore_grid", <<Action("press_back", "")>>, 1, 98)>>
    @@ "profile_followers" :> <<
        Edge("profile_page", <<Action("press_back", "")>>, 1, 98)>>
    @@ "profile_following" :> <<
        Edge("profile_page", <<Action("press_back", "")>>, 1, 98)>>
    @@ "dm_inbox" :> <<
        Edge("home_feed", <<Action("press_back", "")>>, 1, 95)>>
    @@ "story_viewing" :> <<
        Edge("home_feed", <<Action("press_back", "")>>, 1, 90)>>
    @@ "create_post_select" :> <<
        Edge("home_feed", <<Action("press_back", "")>>, 1, 95)>>
    @@ "create_post_edit" :> <<
        Edge("create_post_select", <<Action("press_back", "")>>, 1, 90)>>

\* graph.get(screen, [])
EdgesOf(g, screen) == IF screen \in DOMAIN g THEN g[screen] ELSE <<>>

\* get_full_graph: the login-flow lists, each extended by the main-app list
\* of the same screen
MergeGraphs(login, main) ==
    [screen_id \in DOMAIN login \cup DOMAIN main |->
        EdgesOf(login, screen_id) \o EdgesOf(main, screen_id)]

FullGraph == MergeGraphs(LOGIN_FLOW_GRAPH, MAIN_APP_GRAPH)

ToScreens(g) == UNION {{g[s][k].to_screen : k \in 1..Len(g[s])} : s \in DOMAIN g}

(***************************************************************************)
(* ScreenNavigator.find_path: breadth-first search with a visited set      *)
(***************************************************************************)
None == [none |-> TRUE]

NavigationPath(steps, total_cost, estimated_reliability) ==
    [none |-> FALSE, steps |-> steps, total_cost |-> total_cost,
     estimated_reliability |-> estimated_reliability]

NavigationStep(from_screen, to_screen, edge) ==
    [from_screen |-> from_screen, to_screen |-> to_screen, edge |-> edge]

QueueItem(current, path, cost, reliability) ==
    [current |-> current, path |-> path, cost |-> cost, reliability |-> reliability]

\* queue.popleft(), and a stack's pop() in its place
PopItem_Last(queue) ==
    [item |-> queue[Len(queue)], rest |-> SubSeq(queue, 1, Len(queue) - 1)]

\* a priority queue in place of the deque: the entry of least cost so far
\* comes out first, the earliest such entry among equals
PopItem_Cheapest(queue) ==
    LET i == CHOOSE i \in 1..Len(queue) :
                 /\ \A j \in 1..Len(queue) : queue[i].cost <= queue[j].cost
                 /\ \A j \in 1..(i - 1) : queue[j].cost > queue[i].cost
    IN  [item |-> queue[i],
         rest |-> SubSeq(queue, 1, i - 1) \o SubSeq(queue, i + 1, Len(queue))]

PopItem(queue) == [item |-> Head(queue), rest |-> Tail(queue)]

\* the for loop over the edges of the dequeued screen, from edge k on
RECURSIVE FindPathEdges(_, _, _, _, _, _)
FindPathEdges(edges, k, item, to_screen, queue, visited) ==
    IF k > Len(edges)
    THEN [found |-> FALSE, queue |-> queue, visited |-> visited]
    ELSE LET edge == edges[k]
             new_step == NavigationStep(item.current, edge.to_screen, edge)
             new_path == Append(item.path, new_step)
             new_cost == item.cost + edge.cost
             new_reliability == Append(item.reliability, edge.reliability)
         IN  IF edge.to_screen \in visited
             THEN FindPathEdges(edges, k + 1, item, to_screen, queue, visited)
             ELSE IF edge.to_screen = to_screen
             THEN [found |-> TRUE,
                   path |-> NavigationPath(new_path, new_cost, new_reliability)]
             ELSE FindPathEdges(edges, k + 1, item, to_screen,
                      Append(queue, QueueItem(edge.to_screen, new_path,
                                              new_cost, new_reliability)),
                      visited \cup {edge.to_screen})

\* the while loop
RECURSIVE FindPathLoop(_, _, _, _)
FindPathLoop(g, to_screen, queue, visited) ==
    IF queue = <<>> THEN None
    ELSE LET popped == PopItem(queue)
             r == FindPathEdges(EdgesOf(g, popped.item.current), 1, popped.item,
                                to_screen, popped.rest, visited)
         IN  IF r.found THEN r.path
             ELSE FindPathLoop(g, to_screen, r.queue, r.visited)

FindPath(g, from_screen, to_screen) ==
    IF from_screen = to_screen
    THEN NavigationPath(<<>>, 0, <<>>)
    ELSE FindPathLoop(g, to_screen,
             <<QueueItem(from_screen, <<>>, 0, <<>>)>>,
             {from_screen})

(***************************************************************************)
(* graph.has_path                                                          *)
(***************************************************************************)
RECURSIVE HasPathEdges(_, _, _, _, _)
HasPathEdges(edges, k, to_screen, queue, visited) ==
    IF k > Len(edges)
    THEN [found |-> FALSE, queue |-> queue, visited |-> visited]
    ELSE LET edge == edges[k] IN
         IF edge.to_screen = to_screen THEN [found |-> TRUE]
         ELSE IF edge.to_screen \notin visited
         THEN HasPathEdges(edges, k + 1, to_screen,
                           Append(queue, edge.to_screen), visited \cup {edge.to_screen})
         ELSE HasPathEdges(edges, k + 1, to_screen, queue, visited)

RECURSIVE HasPathLoop(_, _, _, _)
HasPathLoop(g, to_screen, queue, visited) ==
    IF queue = <<>> THEN FALSE
    ELSE LET r == HasPathEdges(EdgesOf(g, Head(queue)), 1, to_screen,
                               Tail(queue), visited)
         IN  IF r.found THEN TRUE
             ELSE HasPathLoop(g, to_screen, r.queue, r.visited)

\* has_path without its first test (from_screen == to_screen)
HasPath_NoSelfTest(g, from_screen, to_screen) ==
    HasPathLoop(g, to_screen, <<from_screen>>, {from_screen})

HasPath(g, from_screen, to_screen) ==
    IF from_screen = to_screen THEN TRUE
    ELSE HasPathLoop(g, to_screen, <<from_screen>>, {from_screen})

(***************************************************************************)
(* Inputs of the path check: the merged graph of graph.py, and every graph *)
(* over three screens and a screen without outgoing edges whose edge lists *)
(* hold at most MaxEdges edges to distinct other screens.                  *)
(***************************************************************************)
MaxEdges == 2

SmallScreens == {"home_feed", "explore_grid", "search_input"}
SinkScreen == "login_password"

SmallEdge(to_screen) == Edge(to_screen, <<Action("press_back", "")>>, 1, 95)

\* the lists of at most n edges to distinct screens of S
RECURSIVE EdgeListsOver(_, _)
EdgeListsOver(S, n) ==
    IF n = 0 THEN {<<>>}
    ELSE {<<>>} \cup UNION {{<<SmallEdge(t)>> \o rest : rest \in EdgeListsOver(S \ {t}, n - 1)}
                            : t \in S}

SmallGraphs ==
    {g \in [SmallScreens -> EdgeListsOver(SmallScreens \cup {SinkScreen}, MaxEdges)] :
        \A s \in SmallScreens : \A k \in 1..Len(g[s]) : g[s][k].to_screen # s}

\* the screen ids a call is made with: those of the graph and one outside it
QueryIds(g) == DOMAIN g \cup ToScreens(g) \cup {"unknown"}

PathInit ==
    /\ graph \in SmallGraphs \cup {FullGraph}
    /\ pathFrom = "none"
    /\ pathTo = "none"
    /\ pathResult = NotCalled
    /\ hasPathResult = NotCalled
    /\ pathTargets = {}
    /\ ScoreIdle
    /\ NavIdle
    /\ DetIdle
    /\ PopIdle /\ ExtIdle

FindPathCall ==
    \E a \in QueryIds(graph), b \in QueryIds(graph) :
        /\ ~pathResult.called
        /\ pathFrom' = a
        /\ pathTo' = b
        /\ pathResult' = Returned(FindPath(graph, a, b))
        /\ hasPathResult' = NotCalled
        /\ UNCHANGED <<graph, pathTargets>>
        /\ UNCHANGED <<scoreVars, navVars, detVars, popVars, extVars>>

HasPathCall ==
    /\ pathResult.called /\ ~hasPathResult.called
    /\ hasPathResult' = Returned(HasPath(graph, pathFrom, pathTo))
    /\ UNCHANGED <<graph, pathFrom, pathTo, pathResult, pathTargets>>
    /\ UNCHANGED <<scoreVars, navVars, detVars, popVars, extVars>>

PathNext == FindPathCall \/ HasPathCall

PathSpec == PathInit /\ [][PathNext]_vars

(***************************************************************************)
(* Properties of find_path and has_path                                    *)
(***************************************************************************)
\* the screens reached from a by at most k edges
RECURSIVE ReachWithin(_, _, _)
ReachWithin(g, a, k) ==
    IF k = 0 THEN {a}
    ELSE LET prev == ReachWithin(g, a, k - 1) IN
         prev \cup UNION {{EdgesOf(g, s)[j].to_screen : j \in 1..Len(EdgesOf(g, s))}
                          : s \in prev}

Reachable(g, a, b) == b \in ReachWithin(g, a, Cardinality(QueryIds(g)))

\* the least number of edges of a directed path from a to b
Distance(g, a, b) ==
    CHOOSE k \in 0..Cardinality(QueryIds(g)) :
        /\ b \in ReachWithin(g, a, k)
        /\ \A j \in 0..(k - 1) : b \notin ReachWithin(g, a, j)

\* steps is a directed path of g from a to b, made of edges of g
IsPathOf(g, steps, a, b) ==
    /\ \A k \in 1..Len(steps) :
          /\ steps[k].from_screen = (IF k = 1 THEN a ELSE steps[k - 1].to_screen)
          /\ steps[k].to_screen = steps[k].edge.to_screen
          /\ \E j \in 1..Len(EdgesOf(g, steps[k].from_screen)) :
                EdgesOf(g, steps[k].from_screen)[j] = steps[k].edge
    /\ b = (IF Len(steps) = 0 THEN a ELSE steps[Len(steps)].to_screen)

\* C5: a path returned by find_path(A, B) is a directed path of the graph
\* from A to B, and no directed path from A to B has fewer edges.
C5_FindPathMinimal ==
    (pathResult.called /\ ~pathResult.ret.none) =>
        /\ IsPathOf(graph, pathResult.ret.steps, pathFrom, pathTo)
        /\ Len(pathResult.ret.steps) = Distance(graph, pathFrom, pathTo)

\* find_path returned a path of three edges between two screens of the
\* merged graph
C5_Witness ==
    /\ graph = FullGraph
    /\ pathResult.called /\ ~pathResult.ret.none
    /\ Len(pathResult.ret.steps) = 3

\* C6: find_path(A, B) returns no path exactly when B is unreachable from A
\* (ids outside the graph included), and has_path(A, B) is true exactly
\* when find_path(A, B) returns a path.
C6_NoPathIffUnreachable ==
    /\ pathResult.called =>
          (pathResult.ret.none <=> ~Reachable(graph, pathFrom, pathTo))
    /\ (pathResult.called /\ hasPathResult.called) =>
          (hasPathResult.ret <=> ~pathResult.ret.none)

\* both functions were called for an id outside the graph as A and as B:
\* they agree on a path, and for another pair on no path
C6_Witness ==
    /\ pathResult.called /\ hasPathResult.called
    /\ pathFrom = "unknown" /\ pathTo = "unknown"
    /\ hasPathResult.ret /\ ~pathResult.ret.none

(***************************************************************************)
(* ScreenNavigator.navigate_to, one action per device or detector call.    *)
(* The detector is the navigator's collaborator: a detect_screen call      *)
(* returns any screen id of DetectOutcomes.  Sleeps take no part.          *)
(***************************************************************************)
\* self._graph = get_full_graph()
NavigatorGraph == FullGraph

\* graph.py lines 151-163
WARMUP_SAFE_STATES == {"explore_grid", "search_results_reels", "reel_viewing", "home_feed"}
LOGIN_SAFE_STATES == {"home_feed", "explore_grid", "profile_page"}

MaxAttempts == 3

\* the screen_id of each entry of INSTAGRAM_SIGNATURES, in the order of the
\* list, and of ANDROID_SYSTEM_SIGNATURES
InstagramScreenIds ==
    {"peek_view", "comments_view", "likes_page", "account_suspended", "join_instagram",
     "login_meta_tos", "login_page", "login_approval_required",
     "login_2fa_method_select", "login_2fa_code_entry", "login_save_info",
     "onboarding_facebook_suggestions", "onboarding_contacts_sync",
     "onboarding_profile_picture", "onboarding_follow_people", "onboarding_add_email",
     "onboarding_preferences", "explore_grid", "search_results_accounts",
     "search_results_reels", "profile_page", "home_feed", "notifications", "dm_inbox",
     "dm_thread", "reel_viewing", "story_viewing", "create_post_gallery",
     "create_post_editor", "create_post_share", "create_story_camera",
     "create_reel_camera", "create_reel_editor", "create_reel_music",
     "create_reel_text", "create_reel_share"}

AndroidSystemScreenIds ==
    {"permission_dialog", "permission_dialog_v2", "app_crash_dialog",
     "app_not_responding", "battery_optimization", "system_alert_window",
     "accessibility_service", "no_internet_dialog", "wifi_connection_prompt",
     "low_storage_warning", "app_update_available", "google_play_services_update"}

\* what detect_screen(app_id="instagram") can return as screen_id: the id
\* of a registered signature of either namespace, or its sentinel
DetectableScreens == InstagramScreenIds \cup AndroidSystemScreenIds \cup {"unknown"}

\* the screen ids the detector reports during the call, and the targets
\* asked for: target is any string
DetectOutcomes == {"home_feed", "explore_grid", "search_results_accounts", "login_page",
                   "unknown"}
NavTargets == {"home_feed", "explore_grid", "search_input", "profile_followers",
               "login_page", "unknown"}

\* what the device does when _execute_action calls it for an action: a
\* click looks its element up and finds it or not, the other gestures are
\* done, and any call may raise; an action without the target it needs, or
\* of no known type, makes no call
DeviceOutcomes(action) ==
    CASE action.action_type \in {"press_back", "swipe_down", "swipe_up", "wait"} ->
            {"done", "raises"}
      [] action.action_type \in {"click_tab", "click_text", "click_content_desc",
                                 "click_element"} /\ action.target # "" ->
            {"found", "missing", "raises"}
      [] action.action_type = "launch_app" /\ action.target # "" -> {"done", "raises"}
      [] OTHER -> {"no call"}

\* _execute_action: the exception of a device call is caught at line 517 and
\* the action returns False
ExecuteAction(action, dev) ==
    IF dev = "raises" THEN FALSE
    ELSE CASE action.action_type \in {"press_back", "swipe_down", "swipe_up", "wait"} -> TRUE
           [] action.action_type \in {"click_tab", "click_text", "click_content_desc",
                                      "click_element"} ->
                 action.target # "" /\ dev = "found"
           [] action.action_type = "launch_app" -> action.target # ""
           [] OTHER -> FALSE

\* the for loop of _execute_step from action k on; executed holds the
\* indices of the actions _execute_action was called with, in call order
RECURSIVE StepFrom(_, _, _, _)
StepFrom(actions, devs, k, executed) ==
    IF k > Len(actions) THEN [ok |-> TRUE, executed |-> executed]
    ELSE IF ~ExecuteAction(actions[k], devs[k])
    THEN [ok |-> FALSE, executed |-> Append(executed, k)]
    ELSE StepFrom(actions, devs, k + 1, Append(executed, k))

\* a loop that goes on after an action failed
RECURSIVE StepFrom_RunsAll(_, _, _, _, _)
StepFrom_RunsAll(actions, devs, k, executed, ok) ==
    IF k > Len(actions) THEN [ok |-> ok, executed |-> executed]
    ELSE StepFrom_RunsAll(actions, devs, k + 1, Append(executed, k),
                          ok /\ ExecuteAction(actions[k], devs[k]))

ExecuteStep_RunsAll(actions, devs) == StepFrom_RunsAll(actions, devs, 1, <<>>, TRUE)

\* _execute_step
ExecuteStep(actions, devs) == StepFrom(actions, devs, 1, <<>>)

\* what the device may do on each action of a list
DeviceSequences(actions) ==
    {devs \in [1..Len(actions) -> {"done", "found", "missing", "raises", "no call"}] :
        \A k \in 1..Len(actions) : devs[k] \in DeviceOutcomes(actions[k])}

\* _execute_step as navigate_to sees it: its boolean and the number of
\* _execute_action calls it made
StepOutcomes(actions) ==
    {[ok |-> r.ok, attempted |-> Len(r.executed)] :
        r \in {ExecuteStep(actions, devs) : devs \in DeviceSequences(actions)}}

\* for attempt in range(1, max_attempts + 1): the next iteration after
\* iteration a, or the code after the loop
LoopNext_OneMore(a, m) ==
    IF a <= m THEN attempt' = a + 1 /\ navPc' = "detect"
    ELSE attempt' = a /\ navPc' = "exhausted"

LoopNext(a, m) ==
    IF a < m THEN attempt' = a + 1 /\ navPc' = "detect"
    ELSE attempt' = a /\ navPc' = "exhausted"

\* return NavigationResult(...)
\* a result whose path_taken is the path planned last, not the steps taken
ReturnResult_PlannedPath(status, final_screen, error_message) ==
    /\ navResult' = Returned([status |-> status,
                              start_screen |-> startScreen',
                              target_screen |-> navTarget,
                              final_screen |-> final_screen,
                              path_taken |-> navPath,
                              steps_completed |-> Len(navPath),
                              error_message |-> error_message,
                              recovery_attempts |-> recoveryAttempts'])
    /\ navPc' = "done"

ReturnResult(status, final_screen, error_message) ==
    /\ navResult' = Returned([status |-> status,
                              start_screen |-> startScreen',
                              target_screen |-> navTarget,
                              final_screen |-> final_screen,
                              path_taken |-> allStepsTaken',
                              steps_completed |-> Len(allStepsTaken'),
                              error_message |-> error_message,
                              recovery_attempts |-> recoveryAttempts'])
    /\ navPc' = "done"

\* line 290: path = self.find_path(current, target_screen).  find_path reads
\* only the graph, which navigate_to never changes, so its result for each
\* pair of screens is computed once
Plans ==
    [d \in DetectOutcomes |->
        [t \in NavTargets \cup WARMUP_SAFE_STATES \cup LOGIN_SAFE_STATES |->
            FindPath(NavigatorGraph, d, t)]]

\* line 279: the status when the attempt's detection is the target
AtTargetStatus_Always(a) == "already_there"

AtTargetStatus(a) == IF a = 1 THEN "already_there" ELSE "success"

\* line 329: the verification found another screen than the step's to_screen
Deviated_Never(actual, step) == FALSE

Deviated(actual, step) == actual # step.to_screen

\* lines 253-259: entry of navigate_to, up to the first iteration of the
\* attempt loop
NavEnter(target, max_attempts, verify) ==
    /\ navTarget' = target
    /\ maxAttempts' = max_attempts
    /\ verifyEachStep' = verify
    /\ totalNavigations' = totalNavigations + 1
    /\ allStepsTaken' = <<>>
    /\ recoveryAttempts' = 0
    /\ startScreen' = "unknown"
    /\ LoopNext(0, max_attempts)
    /\ UNCHANGED <<currentScreen, navPath, stepIdx, navResult,
                   successfulNavigations, totalStepsExecuted,
                   firstDetection, actionsExecuted>>
    /\ UNCHANGED <<scoreVars, pathVars, detVars, popVars>>

\* a call of navigate_to by the navigator's user
NavCall ==
    \E target \in NavTargets, max_attempts \in 0..MaxAttempts, verify \in BOOLEAN :
        /\ navPc = "idle"
        /\ recPc = "idle"
        /\ NavEnter(target, max_attempts, verify)
        /\ UNCHANGED <<lastDetection, detectCalls, extVars>>

\* lines 291-302: find_path found nothing
OnNoPath_Retry(d) ==
    /\ recoveryAttempts' = recoveryAttempts + 1
    /\ LoopNext(attempt, maxAttempts)
    /\ UNCHANGED <<navPath, stepIdx, navResult, successfulNavigations>>

OnNoPath(d) ==
    /\ UNCHANGED <<attempt, recoveryAttempts, navPath, stepIdx, successfulNavigations>>
    /\ ReturnResult("no_path", d, "No path")

\* lines 262-307: the detection that opens an attempt, and the planning
NavDetect ==
    \E d \in DetectOutcomes :
        /\ navPc = "detect"
        /\ detectCalls' = detectCalls + 1
        /\ lastDetection' = d
        /\ firstDetection' = (IF attempt = 1 THEN d ELSE firstDetection)
        /\ currentScreen' = d
        /\ startScreen' = (IF startScreen = "unknown" THEN d ELSE startScreen)
        /\ allStepsTaken' = allStepsTaken
        /\ IF d = "unknown"
           THEN /\ recoveryAttempts' = recoveryAttempts + 1
                /\ LoopNext(attempt, maxAttempts)
                /\ UNCHANGED <<navPath, stepIdx, navResult, successfulNavigations>>
           ELSE IF d = navTarget
           THEN /\ successfulNavigations' = successfulNavigations + 1
                /\ recoveryAttempts' = recoveryAttempts
                /\ ReturnResult(AtTargetStatus(attempt), d, "")
                /\ UNCHANGED <<attempt, navPath, stepIdx>>
           ELSE LET path == Plans[d][navTarget] IN
                IF path.none
                THEN OnNoPath(d)
                ELSE /\ navPath' = path.steps
                     /\ stepIdx' = 1
                     /\ navPc' = "exec"
                     /\ UNCHANGED <<attempt, recoveryAttempts, navResult,
                                    successfulNavigations>>
        /\ UNCHANGED <<navTarget, maxAttempts, verifyEachStep, totalNavigations,
                       totalStepsExecuted, actionsExecuted>>
        /\ UNCHANGED <<scoreVars, pathVars, detVars, popVars, extVars>>

\* lines 336-350: after a step that counts: success on the final step,
\* otherwise the next step
AfterStep ==
    IF stepIdx = Len(navPath)
    THEN /\ successfulNavigations' = successfulNavigations + 1
         /\ ReturnResult("success", navPath[stepIdx].to_screen, "")
         /\ UNCHANGED <<stepIdx, attempt>>
    ELSE /\ stepIdx' = stepIdx + 1
         /\ navPc' = "exec"
         /\ UNCHANGED <<attempt, navResult, successfulNavigations>>

\* lines 313-319: _execute_step on the step in hand
NavExecStep ==
    /\ navPc = "exec"
    /\ \E outcome \in StepOutcomes(navPath[stepIdx].edge.actions) :
           /\ actionsExecuted' = actionsExecuted + outcome.attempted
           /\ startScreen' = startScreen
           /\ IF ~outcome.ok
              THEN /\ recoveryAttempts' = recoveryAttempts + 1
                   /\ LoopNext(attempt, maxAttempts)
                   /\ UNCHANGED <<allStepsTaken, totalStepsExecuted, stepIdx, navResult,
                                  successfulNavigations>>
              ELSE /\ allStepsTaken' = Append(allStepsTaken, navPath[stepIdx])
                   /\ totalStepsExecuted' = totalStepsExecuted + 1
                   /\ recoveryAttempts' = recoveryAttempts
                   /\ IF verifyEachStep
                      THEN /\ navPc' = "verify"
                           /\ UNCHANGED <<stepIdx, attempt, navResult, successfulNavigations>>
                      ELSE AfterStep
           /\ UNCHANGED <<navTarget, maxAttempts, verifyEachStep, currentScreen, navPath,
                          totalNavigations, lastDetection, firstDetection, detectCalls>>
           /\ UNCHANGED <<scoreVars, pathVars, detVars, popVars, extVars>>

\* lines 322-334: the detection after a step
NavVerify ==
    \E actual \in DetectOutcomes :
        /\ navPc = "verify"
        /\ detectCalls' = detectCalls + 1
        /\ lastDetection' = actual
        /\ startScreen' = startScreen
        /\ allStepsTaken' = allStepsTaken
        /\ IF Deviated(actual, navPath[stepIdx])
           THEN /\ recoveryAttempts' = recoveryAttempts + 1
                /\ LoopNext(attempt, maxAttempts)
                /\ UNCHANGED <<stepIdx, navResult, successfulNavigations>>
           ELSE /\ recoveryAttempts' = recoveryAttempts
                /\ AfterStep
        /\ UNCHANGED <<navTarget, maxAttempts, verifyEachStep, currentScreen, navPath,
                       totalNavigations, totalStepsExecuted, firstDetection,
                       actionsExecuted>>
        /\ UNCHANGED <<scoreVars, pathVars, detVars, popVars, extVars>>

\* lines 352-364: max attempts exhausted
NavExhausted ==
    \E d \in DetectOutcomes :
        /\ navPc = "exhausted"
        /\ detectCalls' = detectCalls + 1
        /\ lastDetection' = d
        /\ startScreen' = startScreen
        /\ allStepsTaken' = allStepsTaken
        /\ recoveryAttempts' = recoveryAttempts
        /\ ReturnResult("failed", d, "Failed after attempts")
        /\ UNCHANGED <<navTarget, maxAttempts, verifyEachStep, attempt, currentScreen,
                       navPath, stepIdx, totalNavigations, successfulNavigations,
                       totalStepsExecuted, firstDetection, actionsExecuted>>
        /\ UNCHANGED <<scoreVars, pathVars, detVars, popVars, extVars>>

NavInit == NavIdle /\ ScoreIdle /\ PathIdle /\ DetIdle /\ PopIdle /\ ExtIdle

NavNext == NavCall \/ NavDetect \/ NavExecStep \/ NavVerify \/ NavExhausted

NavSpec == NavInit /\ [][NavNext]_vars

\* the steps of a call in progress
NavRun == NavDetect \/ NavExecStep \/ NavVerify \/ NavExhausted

\* every device and detector call returns, so a call in progress goes on
FairNavSpec == NavSpec /\ WF_vars(NavRun)

(***************************************************************************)
(* ScreenNavigator.find_path_to_any and recover_to_safe_state.  The        *)
(* recovery makes its own detection and then calls navigate_to once or     *)
(* twice; each of these calls runs through the actions of navigate_to      *)
(* above.                                                                  *)
(***************************************************************************)
\* the for loop over the edges of the dequeued screen, from edge k on
RECURSIVE FindAnyEdges(_, _, _, _, _, _)
FindAnyEdges(edges, k, item, targets, queue, visited) ==
    IF k > Len(edges)
    THEN [found |-> FALSE, queue |-> queue, visited |-> visited]
    ELSE LET edge == edges[k]
             new_step == NavigationStep(item.current, edge.to_screen, edge)
             new_path == Append(item.path, new_step)
             new_cost == item.cost + edge.cost
             new_reliability == Append(item.reliability, edge.reliability)
         IN  IF edge.to_screen \in visited
             THEN FindAnyEdges(edges, k + 1, item, targets, queue, visited)
             ELSE IF edge.to_screen \in targets
             THEN [found |-> TRUE,
                   path |-> NavigationPath(new_path, new_cost, new_reliability)]
             ELSE FindAnyEdges(edges, k + 1, item, targets,
                      Append(queue, QueueItem(edge.to_screen, new_path,
                                              new_cost, new_reliability)),
                      visited \cup {edge.to_screen})

\* the while loop
RECURSIVE FindAnyLoop(_, _, _, _)
FindAnyLoop(g, targets, queue, visited) ==
    IF queue = <<>> THEN None
    ELSE LET popped == PopItem(queue)
             r == FindAnyEdges(EdgesOf(g, popped.item.current), 1, popped.item,
                               targets, popped.rest, visited)
         IN  IF r.found THEN r.path
             ELSE FindAnyLoop(g, targets, r.queue, r.visited)

\* a search that never finds a member
FindPathToAny_None(g, from_screen, targets) == None

FindPathToAny(g, from_screen, targets) ==
    IF from_screen \in targets
    THEN NavigationPath(<<>>, 0, <<>>)
    ELSE FindAnyLoop(g, targets,
             <<QueueItem(from_screen, <<>>, 0, <<>>)>>,
             {from_screen})

\* NavigationResult.success
Success(result) == result.status \in {"success", "already_there"}

\* lines 376-384: the safe set and the preferred screen of a context
RecoverContexts == {"warmup", "login", "browse"}
SafeTargets(context) == IF context = "login" THEN LOGIN_SAFE_STATES ELSE WARMUP_SAFE_STATES
Preferred(context) == IF context = "login" THEN "home_feed" ELSE "explore_grid"

\* max_attempts of the two navigate_to calls, lines 402 and 411
RecoverAttempts == 2

\* lines 389-402: the detection, the return when already safe, and the entry
\* of navigate_to(preferred)
RecoverCall ==
    \E context \in RecoverContexts, d \in DetectOutcomes :
        /\ recPc = "idle"
        /\ navPc = "idle"
        /\ recContext' = context
        /\ recDetection' = d
        /\ detectCalls' = detectCalls + 1
        /\ lastDetection' = d
        /\ IF d \in SafeTargets(context)
           THEN /\ recResult' = Returned([status |-> "already_there",
                                          start_screen |-> d,
                                          target_screen |-> d,
                                          final_screen |-> d,
                                          path_taken |-> <<>>,
                                          steps_completed |-> 0,
                                          error_message |-> "",
                                          recovery_attempts |-> 0])
                /\ recPc' = "done"
                /\ UNCHANGED <<navPc, navTarget, maxAttempts, verifyEachStep, attempt,
                               startScreen, currentScreen, navPath, stepIdx,
                               allStepsTaken, recoveryAttempts, navResult,
                               totalNavigations, successfulNavigations,
                               totalStepsExecuted, firstDetection, actionsExecuted>>
                /\ UNCHANGED <<scoreVars, pathVars, detVars, popVars>>
           ELSE /\ NavEnter(Preferred(context), RecoverAttempts, TRUE)
                /\ recPc' = "preferred"
                /\ recResult' = recResult
        /\ UNCHANGED exceptRec

\* lines 403-419: navigate_to(preferred) returned
RecoverAfterPreferred ==
    /\ recPc = "preferred"
    /\ navPc = "done"
    /\ IF Success(navResult.ret)
       THEN /\ recResult' = navResult
            /\ recPc' = "done"
            /\ UNCHANGED <<navVars, scoreVars, pathVars, detVars, popVars>>
       ELSE LET targets == SafeTargets(recContext)
                path == FindPathToAny(NavigatorGraph, recDetection, targets)
            IN  IF ~path.none /\ Len(path.steps) > 0
                THEN /\ NavEnter(path.steps[Len(path.steps)].to_screen,
                                 RecoverAttempts, TRUE)
                     /\ recPc' = "fallback"
                     /\ recResult' = recResult
                     /\ UNCHANGED <<lastDetection, detectCalls>>
                ELSE /\ recResult' = Returned([status |-> "no_path",
                                               start_screen |-> recDetection,
                                               target_screen |-> Preferred(recContext),
                                               final_screen |-> recDetection,
                                               path_taken |-> <<>>,
                                               steps_completed |-> 0,
                                               error_message |-> "No path to any safe state",
                                               recovery_attempts |-> 0])
                     /\ recPc' = "done"
                     /\ UNCHANGED <<navVars, scoreVars, pathVars, detVars, popVars>>
    /\ UNCHANGED <<exceptRec, recContext, recDetection>>

\* line 411: the second navigate_to returned, and its result is the recovery's
RecoverReturn ==
    /\ recPc = "fallback"
    /\ navPc = "done"
    /\ recResult' = navResult
    /\ recPc' = "done"
    /\ UNCHANGED <<exceptRec, recContext, recDetection>>
    /\ UNCHANGED <<navVars, scoreVars, pathVars, detVars, popVars>>

RecoverInit == NavIdle /\ ScoreIdle /\ PathIdle /\ DetIdle /\ PopIdle /\ ExtIdle

RecoverNext ==
    \/ RecoverCall \/ RecoverAfterPreferred \/ RecoverReturn
    \/ NavDetect \/ NavExecStep \/ NavVerify \/ NavExhausted

RecoverSpec == RecoverInit /\ [][RecoverNext]_vars

(***************************************************************************)
(* search_for_keyword (navigation/search.py), one action per stage.  The   *)
(* device, the detector and the navigator are its collaborators: each of   *)
(* their calls returns one of its possible values or raises.  Delays, the  *)
(* keyword, steps_taken and total_time_seconds take no part; whether the   *)
(* timeout has run out when the stabilising loop tests it is open.         *)
(***************************************************************************)
\* exceptions the collaborators raise, and the one of line 234 when
\* result_type was never assigned
DeviceErrors ==
    {[class |-> "ConnectionError", message |-> "device offline"],
     [class |-> "RuntimeError", message |-> "rpc failed"]}
UnboundResultType ==
    [class |-> "UnboundLocalError",
     message |-> "cannot access local variable 'result_type'"]

\* the classes derived from Exception
ExceptionClasses == {"ConnectionError", "RuntimeError", "UnboundLocalError"}

\* an except clause that matches nothing
Handles_Nothing(exc) == FALSE

\* line 268: except Exception
Handles(exc) == exc.class \in ExceptionClasses

Unbound == "<unbound>"

SearchScreens == {"explore_grid", "home_feed", "search_results_reels",
                  "search_results_accounts", "unknown"}

\* what a call of a collaborator gives
Raises(exc) == [raised |-> TRUE, exc |-> exc]
Gives(value) == [raised |-> FALSE, value |-> value]

DetectResults == {Gives(s) : s \in SearchScreens} \cup {Raises(e) : e \in DeviceErrors}
\* xpath(...).wait / .exists followed by the clicks and key presses of a stage
DeviceResults == {Gives(b) : b \in BOOLEAN} \cup {Raises(e) : e \in DeviceErrors}
\* navigate_to: a result with its success and error_message
NavigateResults ==
    {Gives([success |-> TRUE, error_message |-> PyNone]),
     Gives([success |-> FALSE, error_message |-> "Failed after attempts"])}
    \cup {Raises(e) : e \in DeviceErrors}
\* the two xpath probes of _detect_search_result_type, lines 96-102
Probes == {"reel", "account", "none", "raises"}

\* range(5), line 226
StabilizeTries == 5

\* _detect_search_result_type after its detect_screen returned
DetectSearchResultType(screen_id, probe) ==
    IF screen_id = "search_results_reels" THEN "reels"
    ELSE IF screen_id = "search_results_accounts" THEN "accounts"
    ELSE IF probe = "reel" THEN "reels"
    ELSE IF probe = "account" THEN "accounts"
    ELSE "unknown"

\* an exception raised inside the try block of lines 138-266
Raise(exc) ==
    /\ srchError' = Returned(exc)
    /\ srchPc' = (IF Handles(exc) THEN "handler" ELSE "raised")
    /\ srchResult' = srchResult

\* return SearchResult(...)
SearchReturn(success, result_type, final_screen, error_message) ==
    /\ srchResult' = Returned([success |-> success,
                               result_type |-> result_type,
                               final_screen |-> final_screen,
                               error_message |-> error_message])
    /\ srchPc' = "done"
    /\ srchError' = srchError

\* no exception and no return: on to another stage
Goto(pc) ==
    /\ srchPc' = pc
    /\ srchError' = srchError
    /\ srchResult' = srchResult

SearchFrame == UNCHANGED <<scoreVars, pathVars, navVars, detVars, popVars, exceptSrch>>

\* lines 129-138
SearchCall ==
    \E ensure_reels \in BOOLEAN :
        /\ srchPc = "idle"
        /\ srchEnsureReels' = ensure_reels
        /\ Goto("detect")
        /\ UNCHANGED <<srchCurrent, srchResultType, srchTries, srchLastDetect>>
        /\ SearchFrame

\* lines 140-145
SearchDetect ==
    \E out \in DetectResults :
        /\ srchPc = "detect"
        /\ srchLastDetect' = Returned(out)
        /\ IF out.raised
           THEN Raise(out.exc) /\ UNCHANGED srchCurrent
           ELSE /\ srchCurrent' = out.value
                /\ Goto(IF out.value # "explore_grid" THEN "navigate" ELSE "search_bar")
        /\ UNCHANGED <<srchEnsureReels, srchResultType, srchTries>>
        /\ SearchFrame

\* lines 146-163
SearchNavigate ==
    \E nav_result \in NavigateResults :
        /\ srchPc = "navigate"
        /\ IF nav_result.raised THEN Raise(nav_result.exc)
           ELSE IF ~nav_result.value.success
           THEN SearchReturn(FALSE, "failed", srchCurrent,
                    "Failed to navigate to explore_grid: " \o nav_result.value.error_message)
           ELSE Goto("search_bar")
        /\ UNCHANGED <<srchEnsureReels, srchCurrent, srchResultType, srchTries,
                       srchLastDetect>>
        /\ SearchFrame

\* lines 165-180
SearchClickBar ==
    \E found \in DeviceResults :
        /\ srchPc = "search_bar"
        /\ IF found.raised THEN Raise(found.exc)
           ELSE IF ~found.value
           THEN SearchReturn(FALSE, "failed", "explore_grid", "Search bar not found")
           ELSE Goto("type")
        /\ UNCHANGED <<srchEnsureReels, srchCurrent, srchResultType, srchTries,
                       srchLastDetect>>
        /\ SearchFrame

\* lines 182-220
SearchType ==
    \E exists \in DeviceResults :
        /\ srchPc = "type"
        /\ IF exists.raised THEN Raise(exists.exc)
           ELSE IF ~exists.value
           THEN SearchReturn(FALSE, "failed", "explore_grid", "Search input field not found")
           ELSE Goto("results")
        /\ UNCHANGED <<srchEnsureReels, srchCurrent, srchResultType, srchTries,
                       srchLastDetect>>
        /\ SearchFrame

\* lines 234-236: the code after the stabilising loop
AfterLoop(result_type) ==
    IF result_type = Unbound THEN Raise(UnboundResultType)
    ELSE Goto(IF srchEnsureReels /\ result_type = "accounts" THEN "switch" ELSE "final")

\* lines 226-232: one iteration of the stabilising loop
SearchStabilize ==
    \E expired \in BOOLEAN, out \in DetectResults, probe \in Probes :
        /\ srchPc = "results"
        /\ IF expired
           THEN /\ AfterLoop(srchResultType)
                /\ UNCHANGED <<srchResultType, srchTries, srchLastDetect>>
           ELSE /\ srchTries' = srchTries + 1
                /\ srchLastDetect' = Returned(out)
                /\ IF out.raised
                   THEN Raise(out.exc) /\ UNCHANGED srchResultType
                   ELSE LET result_type == DetectSearchResultType(out.value, probe) IN
                        /\ srchResultType' = result_type
                        /\ IF result_type # "unknown" \/ srchTries + 1 = StabilizeTries
                           THEN AfterLoop(result_type)
                           ELSE Goto("results")
        /\ UNCHANGED <<srchEnsureReels, srchCurrent>>
        /\ SearchFrame

\* lines 237-253
SearchSwitchTab ==
    \E found \in DeviceResults, out \in DetectResults, probe \in Probes :
        /\ srchPc = "switch"
        /\ IF found.raised
           THEN Raise(found.exc) /\ UNCHANGED <<srchResultType, srchLastDetect>>
           ELSE IF ~found.value
           THEN Goto("final") /\ UNCHANGED <<srchResultType, srchLastDetect>>
           ELSE /\ srchLastDetect' = Returned(out)
                /\ IF out.raised
                   THEN Raise(out.exc) /\ UNCHANGED srchResultType
                   ELSE /\ srchResultType' =
                              (IF DetectSearchResultType(out.value, probe) = "reels"
                               THEN "reels" ELSE srchResultType)
                        /\ Goto("final")
        /\ UNCHANGED <<srchEnsureReels, srchCurrent, srchTries>>
        /\ SearchFrame

\* lines 255-266
SearchFinal ==
    \E out \in DetectResults :
        /\ srchPc = "final"
        /\ srchLastDetect' = Returned(out)
        /\ IF out.raised THEN Raise(out.exc)
           ELSE SearchReturn(TRUE, srchResultType, out.value, PyNone)
        /\ UNCHANGED <<srchEnsureReels, srchCurrent, srchResultType, srchTries>>
        /\ SearchFrame

\* lines 268-286: the except clause
SearchHandler ==
    \E out \in DetectResults :
        /\ srchPc = "handler"
        /\ srchLastDetect' = Returned(out)
        /\ SearchReturn(FALSE, "failed",
                        IF out.raised THEN "unknown" ELSE out.value,
                        srchError.ret.message)
        /\ UNCHANGED <<srchEnsureReels, srchCurrent, srchResultType, srchTries>>
        /\ SearchFrame

SearchInit == NavIdle /\ ScoreIdle /\ PathIdle /\ DetIdle /\ PopIdle /\ ExtIdle

SearchNext ==
    \/ SearchCall \/ SearchDetect \/ SearchNavigate \/ SearchClickBar \/ SearchType
    \/ SearchStabilize \/ SearchSwitchTab \/ SearchFinal \/ SearchHandler

SearchSpec == SearchInit /\ [][SearchNext]_vars

(***************************************************************************)
(* _execute_step on its own, for every list of at most MaxActions actions  *)
(* of a pool that holds gestures, clicks with and without target, and an   *)
(* action of no known type.                                                *)
(***************************************************************************)
MaxActions == 3

ActionPool ==
    {Action("press_back", ""),
     Action("click_tab", "Search and explore"),
     Action("click_element", ""),
     Action("launch_app", "com.instagram.android"),
     Action("long_press", "Home")}

ActionLists == UNION {[1..n -> ActionPool] : n \in 0..MaxActions}

ExecuteStepCall ==
    \E actions \in ActionLists :
    \E devs \in DeviceSequences(actions) :
        LET r == ExecuteStep(actions, devs) IN
        /\ ~stepCall.called
        /\ stepCall' = [called |-> TRUE, actions |-> actions, devs |-> devs,
                        ok |-> r.ok, executed |-> r.executed]
        /\ UNCHANGED <<scoreVars, pathVars, navVars, detVars, popVars, exceptStep>>

StepInit == NavIdle /\ ScoreIdle /\ PathIdle /\ DetIdle /\ PopIdle /\ ExtIdle

StepNext == ExecuteStepCall

StepSpec == StepInit /\ [][StepNext]_vars

(***************************************************************************)
(* Properties of navigate_to                                               *)
(***************************************************************************)
Status == navResult.ret.status

\* C4: with verify_each_step on, when a step's actions all succeeded and the
\* detection after it is not the step's to_screen, that step of the call
\* adds exactly one recovery attempt, returns nothing and executes nothing;
\* the plan is left: either a new attempt starts, which detects again and
\* plans from the screen it detects, or, attempts exhausted, the call
\* returns failed.
C4_DeviationReplans ==
    [][ /\ (navPc = "verify" /\ lastDetection' # navPath[stepIdx].to_screen) =>
              /\ verifyEachStep
              /\ recoveryAttempts' = recoveryAttempts + 1
              /\ ~navResult'.called
              /\ actionsExecuted' = actionsExecuted
              /\ allStepsTaken' = allStepsTaken
              /\ IF attempt < maxAttempts
                 THEN navPc' = "detect" /\ attempt' = attempt + 1
                 ELSE navPc' = "exhausted"
        /\ (navPc = "detect" /\ navPc' = "exec") =>
              /\ detectCalls' = detectCalls + 1
              /\ navPath' = FindPath(NavigatorGraph, lastDetection', navTarget).steps
              /\ stepIdx' = 1
        /\ navPc = "exhausted" => (navResult'.called /\ navResult'.ret.status = "failed")
        /\ (navResult'.called /\ navResult'.ret.status = "success" /\ verifyEachStep) =>
              lastDetection' = navTarget
      ]_vars

\* after one executed step the verification found a third screen, neither
\* the step's to_screen nor unknown, and a second attempt has started
C4_Witness ==
    /\ navPc = "detect" /\ attempt = 2 /\ verifyEachStep
    /\ Len(allStepsTaken) = 1 /\ recoveryAttempts = 1
    /\ lastDetection \notin {allStepsTaken[1].to_screen, allStepsTaken[1].from_screen,
                             "unknown"}

\* C7 as stated: navigate_to returns already_there exactly when the detection
\* of its first attempt is the target.
C7_Original ==
    navResult.called => (Status = "already_there" <=> firstDetection = navTarget)

\* C7, amended: navigate_to returns already_there exactly when the detection
\* of its first attempt is the target and is not "unknown", and then no
\* action was executed; when an attempt after the first detects a target
\* other than "unknown" the status is success.
C7_AlreadyThereOnFirstAttempt ==
    /\ [](navResult.called =>
            /\ (Status = "already_there" <=>
                   (firstDetection = navTarget /\ navTarget # "unknown"))
            /\ (Status = "already_there" =>
                   /\ actionsExecuted = 0
                   /\ navResult.ret.steps_completed = 0
                   /\ detectCalls = 1))
    /\ [][(navPc = "detect" /\ lastDetection' = navTarget /\ navTarget # "unknown") =>
             /\ navResult'.called
             /\ navResult'.ret.status = (IF attempt = 1 THEN "already_there" ELSE "success")
             /\ actionsExecuted' = actionsExecuted]_vars

\* the target was detected at the start of the second attempt: success
C7_Witness ==
    /\ navResult.called /\ Status = "success"
    /\ attempt = 2 /\ lastDetection = navTarget /\ currentScreen = navTarget
    /\ firstDetection # navTarget

\* C8: when find_path from the detected screen to the target finds nothing,
\* that very step returns no_path: no further detection, no action and no
\* further attempt follow, whatever attempts remain.
C8_NoPathIsTerminal ==
    /\ [][(/\ navPc = "detect"
           /\ lastDetection' \notin {"unknown", navTarget}
           /\ FindPath(NavigatorGraph, lastDetection', navTarget).none) =>
             /\ navResult'.called
             /\ navResult'.ret.status = "no_path"
             /\ navResult'.ret.final_screen = lastDetection'
             /\ navPc' = "done"
             /\ detectCalls' = detectCalls + 1
             /\ actionsExecuted' = actionsExecuted
             /\ attempt' = attempt
             /\ recoveryAttempts' = recoveryAttempts]_vars
    /\ [][navPc = "done" => UNCHANGED vars]_vars
    /\ [](navResult.called => navPc = "done")

\* no_path returned by the second of three attempts
C8_Witness ==
    /\ navResult.called /\ Status = "no_path"
    /\ attempt = 2 /\ maxAttempts = 3
    /\ FindPath(NavigatorGraph, currentScreen, navTarget).none

\* C9: navigate_to returns; it makes at most max_attempts attempts; within an
\* attempt the step index only advances along one planned path; and when the
\* attempts are exhausted one more detection is made and the call returns
\* failed with that detection as final_screen.
C9_Terminates ==
    /\ [](navPc # "idle" => <>(navPc = "done"))
    /\ [](/\ attempt <= maxAttempts
          /\ navPc \in {"exec", "verify"} => stepIdx \in 1..Len(navPath)
          /\ (navResult.called /\ Status = "failed") =>
                /\ attempt = maxAttempts
                /\ navResult.ret.final_screen = lastDetection)
    /\ [][ /\ navPc = "exec" =>
                \/ navPc' = "verify" /\ stepIdx' = stepIdx /\ navPath' = navPath
                \/ navPc' = "exec" /\ stepIdx' = stepIdx + 1 /\ navPath' = navPath
                                   /\ attempt' = attempt
                \/ navPc' \in {"detect", "exhausted", "done"}
           /\ navPc = "verify" =>
                \/ navPc' = "exec" /\ stepIdx' = stepIdx + 1 /\ navPath' = navPath
                                   /\ attempt' = attempt
                \/ navPc' \in {"detect", "exhausted", "done"}
           /\ navPc = "detect" => (navPc' = "detect" => attempt' = attempt + 1)
           /\ navPc = "exhausted" =>
                /\ detectCalls' = detectCalls + 1
                /\ navResult'.called
                /\ navResult'.ret.status = "failed"
                /\ navResult'.ret.final_screen = lastDetection'
         ]_vars

\* three attempts were made, the last one executed a step, and the call
\* returned failed
C9_Witness ==
    /\ navResult.called /\ Status = "failed"
    /\ attempt = 3 /\ maxAttempts = 3
    /\ recoveryAttempts = 3
    /\ Len(allStepsTaken) >= 2

(***************************************************************************)
(* SignatureRegistry (signatures/base.py) and ScreenDetector.detect_screen *)
(* (navigation/detector.py).  The registry holds signatures of             *)
(* signatures/instagram.py and signatures/android_system.py, their         *)
(* selector lists abridged.  One detector serves one caller: a call of     *)
(* detect_screen is one step.  The device's dump returns any snapshot over *)
(* the node pool, or fails.  Times are in ms; no time passes during a      *)
(* call.  detection_time_ms and description take no part.                  *)
(***************************************************************************)
ScreenSignature(app_id, screen_id, required, forbidden, unique, optional, priority, recovery_action, is_safe_state) ==
    [app_id |-> app_id, screen_id |-> screen_id, required |-> required,
     forbidden |-> forbidden, unique |-> unique, optional |-> optional,
     priority |-> priority, recovery_action |-> recovery_action,
     is_safe_state |-> is_safe_state]

INSTAGRAM_SIGNATURES ==
    <<ScreenSignature("instagram", "peek_view",
                      <<":id/peek_container">>,
                      <<"text:Views & likes">>,
                      <<":id/peek_container">>,
                      <<":id/row_feed_button_like", "content-desc:Like">>,
                      100, "back", FALSE),
      ScreenSignature("instagram", "home_feed",
                      <<":id/row_feed_button_like">>,
                      <<":id/clips_viewer_view_pager">>,
                      <<":id/row_feed_button_like">>,
                      <<"text:Your story", ":id/title_logo">>,
                      25, "click_explore", FALSE),
      ScreenSignature("instagram", "reel_viewing",
                      <<":id/clips_viewer_view_pager">>,
                      <<":id/peek_container", "text:Your story">>,
                      <<":id/clips_viewer_view_pager">>,
                      <<"content-desc:Like OR content-desc:Unlike">>,
                      30, PyNone, TRUE)>>

ANDROID_SYSTEM_SIGNATURES ==
    <<ScreenSignature("android_system", "permission_dialog",
                      <<"text:Allow", "text:Deny">>,
                      <<>>,
                      <<":id/permission_message">>,
                      <<"text:Don't allow">>,
                      100, "click_deny", FALSE)>>

\* an ascending sort read backwards: descending, the entries of an equal
\* key in the reverse of their order
SortDesc_TiesReversed(seq, gt) ==
    LET rank(i) == 1 + Cardinality({j \in 1..Len(seq) :
                        gt[j][i] \/ (~gt[i][j] /\ j > i)})
    IN  [p \in 1..Len(seq) |-> seq[CHOOSE i \in 1..Len(seq) : rank(i) = p]]

\* list.sort(key=..., reverse=True) and sorted(..., reverse=True): a stable
\* sort, descending; gt[i][j] says that the key of entry i is greater than
\* that of entry j.  The entry at index i comes after every entry of a
\* greater key and after the earlier entries of an equal key
SortDesc(seq, gt) ==
    LET rank(i) == 1 + Cardinality({j \in 1..Len(seq) :
                        gt[j][i] \/ (~gt[i][j] /\ j < i)})
    IN  [p \in 1..Len(seq) |-> seq[CHOOSE i \in 1..Len(seq) : rank(i) = p]]

\* key=lambda s: s.priority
ByPriority(seq) ==
    [i \in 1..Len(seq) |-> [j \in 1..Len(seq) |-> seq[i].priority > seq[j].priority]]

\* a register that extends the list the app already has
Register_Extends(reg, app_id, signatures) ==
    LET all == (IF app_id \in DOMAIN reg THEN reg[app_id] ELSE <<>>) \o signatures
    IN  [a \in DOMAIN reg \cup {app_id} |->
            IF a = app_id THEN SortDesc(all, ByPriority(all)) ELSE reg[a]]

\* SignatureRegistry.register
Register(reg, app_id, signatures) ==
    [a \in DOMAIN reg \cup {app_id} |->
        IF a = app_id THEN SortDesc(signatures, ByPriority(signatures)) ELSE reg[a]]

\* the registry after both signature modules are imported
Registry ==
    Register(Register(<<>>, "instagram", INSTAGRAM_SIGNATURES),
             "android_system", ANDROID_SYSTEM_SIGNATURES)

\* SignatureRegistry.get_signatures
GetSignatures(reg, app_id, include_system) ==
    LET sigs == IF app_id \in DOMAIN reg THEN reg[app_id] ELSE <<>>
        system_sigs == IF "android_system" \in DOMAIN reg
                       THEN reg["android_system"] ELSE <<>>
    IN  IF include_system /\ app_id # "android_system"
        THEN SortDesc(sigs \o system_sigs, ByPriority(sigs \o system_sigs))
        ELSE sigs

\* the dict comprehension of register: of the signatures of one screen_id
\* the last of the list is kept
ByScreenId(signatures) ==
    [screen_id \in {signatures[i].screen_id : i \in 1..Len(signatures)} |->
        signatures[CHOOSE i \in 1..Len(signatures) :
                       /\ signatures[i].screen_id = screen_id
                       /\ \A j \in (i + 1)..Len(signatures) :
                              signatures[j].screen_id # screen_id]]

\* SignatureRegistry.get_signature
GetSignature(by_screen_id, app_id, screen_id) ==
    LET app_sigs == IF app_id \in DOMAIN by_screen_id THEN by_screen_id[app_id] ELSE <<>>
    IN  IF screen_id \in DOMAIN app_sigs THEN app_sigs[screen_id] ELSE PyNone

(***************************************************************************)
(* A registry from its construction on: register calls with lists of at    *)
(* most MaxSigs signatures, some of one screen_id and some of one          *)
(* priority.                                                               *)
(***************************************************************************)
MaxSigs == 2
MaxRegisters == 3

RegApps == {"instagram", "android_system"}

RegPool ==
    {ScreenSignature("instagram", "home_feed", <<":id/row_feed_button_like">>,
                     <<>>, <<>>, <<>>, 25, PyNone, FALSE),
     ScreenSignature("instagram", "home_feed", <<":id/title_logo">>,
                     <<>>, <<>>, <<>>, 100, PyNone, FALSE),
     ScreenSignature("instagram", "peek_view", <<":id/peek_container">>,
                     <<>>, <<>>, <<>>, 100, "back", FALSE)}

RegLists == UNION {[1..n -> RegPool] : n \in 0..MaxSigs}

\* dict[key] = value
DictSet(dict, key, value) ==
    [k \in DOMAIN dict \cup {key} |-> IF k = key THEN value ELSE dict[k]]

RegisterCall ==
    \E app_id \in RegApps, signatures \in RegLists :
        /\ regCalls < MaxRegisters
        /\ regCalls' = regCalls + 1
        /\ regSignatures' = Register(regSignatures, app_id, signatures)
        /\ regByScreenId' = DictSet(regByScreenId, app_id, ByScreenId(signatures))
        /\ regLast' = DictSet(regLast, app_id, signatures)
        /\ UNCHANGED <<scoreVars, pathVars, navVars, detVars, popVars, exceptReg>>

RegistryInit == ScoreIdle /\ PathIdle /\ NavIdle /\ DetIdle /\ PopIdle /\ ExtIdle

RegistryNext == RegisterCall

RegistrySpec == RegistryInit /\ [][RegistryNext]_vars

MaxDetections == 2
MaxTicks == 2

\* app ids asked for; nothing is registered for "tiktok"
AppIds == {"instagram", "android_system", "tiktok"}

AllowButton == Node("", "", "Allow", "android.widget.Button", "true")

DetectNodePool ==
    {Node("com.instagram.android:id/row_feed_button_like", "Like", "",
          "android.widget.ImageView", "true"),
     Node("com.instagram.android:id/peek_container", "", "",
          "android.widget.FrameLayout", "false"),
     AllowButton}

\* a parsed hierarchy, and what device.dump_hierarchy() can give: any
\* snapshot, or an exception
Hierarchy(nodes) == [none |-> FALSE, nodes |-> nodes]

DumpFailed == [none |-> TRUE]

DumpOutcomes == {Hierarchy(nodes) : nodes \in SUBSET DetectNodePool} \cup {DumpFailed}

\* _get_ui_hierarchy, lines 183-187: the cache is served
CacheValid_NoTtl(force_refresh) == ~force_refresh /\ ~cachedHierarchy.none

CacheValid(force_refresh) ==
    /\ ~force_refresh
    /\ ~cachedHierarchy.none
    /\ (now - cacheTimestamp) < CACHE_TTL_MS

\* _get_ui_hierarchy(force_refresh), lines 179-199, the device giving dump
\* if asked: what it returns, the three cache fields it leaves, and the
\* number of dumps it made
GetUiHierarchy_DropsCache(force_refresh, dump) ==
    IF CacheValid(force_refresh)
    THEN [ret |-> cachedHierarchy, hierarchy |-> cachedHierarchy,
          timestamp |-> cacheTimestamp, elements |-> cachedElements, dumps |-> 0]
    ELSE [ret |-> dump, hierarchy |-> dump, timestamp |-> now, elements |-> {},
          dumps |-> 1]

GetUiHierarchy(force_refresh, dump) ==
    IF CacheValid(force_refresh)
    THEN [ret |-> cachedHierarchy, hierarchy |-> cachedHierarchy,
          timestamp |-> cacheTimestamp, elements |-> cachedElements, dumps |-> 0]
    ELSE IF dump.none
    THEN [ret |-> NoHierarchy, hierarchy |-> cachedHierarchy,
          timestamp |-> cacheTimestamp, elements |-> cachedElements, dumps |-> 1]
    ELSE [ret |-> dump, hierarchy |-> dump, timestamp |-> now, elements |-> {},
          dumps |-> 1]

\* line 116: if score > 0
HasScore_Any(score) == TRUE

HasScore(score) == score.num > 0

\* key=lambda x: x[1][0]
ByScore(seq) ==
    [i \in 1..Len(seq) |-> [j \in 1..Len(seq) |->
        seq[i].score.num * seq[j].score.den > seq[j].score.num * seq[i].score.den]]

\* _extract_elements on a fresh snapshot and _score_signature are pure: their
\* values over the snapshots and the registered signatures are tabulated,
\* entry by entry
RECURSIVE ExtractedOver(_)
ExtractedOver(snapshots) ==
    IF snapshots = {} THEN <<>>
    ELSE LET nodes == CHOOSE n \in snapshots : TRUE
         IN  (nodes :> ExtractFresh(nodes)) @@ ExtractedOver(snapshots \ {nodes})

Extracted == ExtractedOver(SUBSET DetectNodePool)

RegisteredSignatures ==
    UNION {{Registry[a][k] : k \in 1..Len(Registry[a])} : a \in DOMAIN Registry}

RECURSIVE ScoredOn(_, _)
ScoredOn(signatures, elems) ==
    IF signatures = {} THEN <<>>
    ELSE LET signature == CHOOSE x \in signatures : TRUE
         IN  (signature :> ScoreSignature(signature, elems))
                @@ ScoredOn(signatures \ {signature}, elems)

RECURSIVE ScoredOver(_)
ScoredOver(elementSets) ==
    IF elementSets = {} THEN <<>>
    ELSE LET elems == CHOOSE e \in elementSets : TRUE
         IN  (elems :> ScoredOn(RegisteredSignatures, elems))
                @@ ScoredOver(elementSets \ {elems})

Scored == ScoredOver({Extracted[nodes] : nodes \in SUBSET DetectNodePool})

\* lines 111-118: the entries of scores, in the order of their insertion
\* (the registered screen ids are distinct)
ScoreAll(signatures, elems) ==
    LET scored == [k \in 1..Len(signatures) |->
                     LET r == Scored[elems][signatures[k]] IN
                     [screen_id |-> signatures[k].screen_id, score |-> r.score,
                      sig |-> signatures[k], matched |-> r.matched]]
    IN  SelectSeq(scored, LAMBDA e : HasScore(e.score))

ScreenDetectionResult(app_id, screen_id, confidence, matched_elements, candidates, is_safe_state, recovery_action, error) ==
    [app_id |-> app_id, screen_id |-> screen_id, confidence |-> confidence,
     matched_elements |-> matched_elements, candidates |-> candidates,
     is_safe_state |-> is_safe_state, recovery_action |-> recovery_action,
     error |-> error]

\* a result built from app_id, "unknown", 0.0 and the defaults
UnknownResult(app_id, error) ==
    ScreenDetectionResult(app_id, "unknown", [num |-> 0, den |-> 1], <<>>, <<>>,
                          FALSE, PyNone, error)

\* lines 136-164: the result for a non-empty scores
WinnerResult(scores) ==
    LET sorted_scores == SortDesc(scores, ByScore(scores))
        winner == sorted_scores[1]
        top == SubSeq(sorted_scores, 1, IF Len(sorted_scores) < 5
                                        THEN Len(sorted_scores) ELSE 5)
    IN  ScreenDetectionResult(winner.sig.app_id, winner.screen_id, winner.score,
                              winner.matched,
                              [k \in 1..Len(top) |->
                                  [screen_id |-> top[k].screen_id, score |-> top[k].score]],
                              winner.sig.is_safe_state, winner.sig.recovery_action,
                              PyNone)

\* detect_screen(app_id, force_refresh, include_system), lines 82-175
DetectScreen ==
    \E app_id \in AppIds, force_refresh \in BOOLEAN, include_system \in BOOLEAN :
    \E dump \in (IF CacheValid(force_refresh) THEN {cachedHierarchy} ELSE DumpOutcomes) :
        LET \* line 86
            got == GetUiHierarchy(force_refresh, dump)
            hierarchy == got.ret
            \* _extract_elements on what line 195 left
            kept == got.elements
            elems == IF kept # {} THEN kept ELSE Extracted[hierarchy.nodes]
            signatures == GetSignatures(Registry, app_id, include_system)
            scores == ScoreAll(signatures, elems)
        IN  /\ detCallNo < MaxDetections
            /\ detCallNo' = detCallNo + 1
            /\ detCall' = [called |-> TRUE, app_id |-> app_id,
                           force_refresh |-> force_refresh,
                           include_system |-> include_system]
            /\ cachedHierarchy' = got.hierarchy
            /\ cacheTimestamp' = got.timestamp
            /\ dumpCalls' = got.dumps
            /\ snapshot' = Returned(got.ret)
            /\ IF hierarchy.none
               THEN \* lines 87-94
                    /\ detResult' = Returned(UnknownResult(app_id,
                                                 "Failed to dump UI hierarchy"))
                    /\ detScoring' = NotCalled
                    /\ cachedElements' = got.elements
                    /\ UNCHANGED <<detectionCount, unknownCount>>
               ELSE /\ cachedElements' = elems
                    /\ IF Len(signatures) = 0
                       THEN \* lines 101-108
                            /\ detResult' = Returned(UnknownResult(app_id,
                                      "No signatures registered for app: " \o app_id))
                            /\ detScoring' = NotCalled
                            /\ UNCHANGED <<detectionCount, unknownCount>>
                       ELSE /\ detScoring' = [called |-> TRUE, elements |-> elems,
                                              signatures |-> signatures]
                            /\ detectionCount' = detectionCount + 1
                            /\ IF Len(scores) = 0
                               THEN \* lines 125-133
                                    /\ unknownCount' = unknownCount + 1
                                    /\ detResult' = Returned(UnknownResult(app_id, PyNone))
                               ELSE /\ unknownCount' = unknownCount
                                    /\ detResult' = Returned(WinnerResult(scores))
            /\ UNCHANGED now
            /\ UNCHANGED <<scoreVars, pathVars, navVars, popVars, exceptDump>>

\* invalidate_cache
InvalidateCache ==
    /\ cachedHierarchy' = NoHierarchy
    /\ cachedElements' = {}
    /\ cacheTimestamp' = 0
    /\ UNCHANGED <<detectionCount, unknownCount, now, detCallNo, detCall,
                   detScoring, detResult>>
    /\ UNCHANGED <<scoreVars, pathVars, navVars, popVars, extVars>>

\* time passes between calls, half a TTL at a time
Tick ==
    /\ now < CACHE_TTL_MS + MaxTicks * (CACHE_TTL_MS \div 2)
    /\ now' = now + (CACHE_TTL_MS \div 2)
    /\ UNCHANGED <<cachedHierarchy, cacheTimestamp, cachedElements, detectionCount,
                   unknownCount, detCallNo, detCall, detScoring, detResult>>
    /\ UNCHANGED <<scoreVars, pathVars, navVars, popVars, extVars>>

DetectInit == DetIdle /\ ScoreIdle /\ PathIdle /\ NavIdle /\ PopIdle /\ ExtIdle

DetectNext == DetectScreen \/ InvalidateCache \/ Tick

DetectSpec == DetectInit /\ [][DetectNext]_vars

(***************************************************************************)
(* Properties of detect_screen                                             *)
(***************************************************************************)
\* C10: when a call of detect_screen has a snapshot and candidate signatures
\* and every candidate scores 0 on the snapshot's element set, it returns
\* screen_id "unknown", confidence 0.0 and no error, and the call adds exactly
\* one to the unknown counter and exactly one to the detection counter.
C10_NoMatchIsUnknown ==
    [][(/\ detCallNo' = detCallNo + 1
        /\ detScoring'.called
        /\ \A k \in 1..Len(detScoring'.signatures) :
              IsZero(Scored[detScoring'.elements][detScoring'.signatures[k]].score)) =>
          /\ detResult'.called
          /\ detResult'.ret.screen_id = "unknown"
          /\ IsZero(detResult'.ret.confidence)
          /\ detResult'.ret.error = PyNone
          /\ unknownCount' = unknownCount + 1
          /\ detectionCount' = detectionCount + 1]_vars

\* the second call scored the three instagram signatures on a snapshot
\* holding an "Allow" button and nothing more, and counted a second unknown
C10_Witness ==
    /\ detCallNo = 2 /\ unknownCount = 2 /\ detectionCount = 2
    /\ detScoring.called /\ Len(detScoring.signatures) = 3
    /\ detScoring.elements = Extracted[{AllowButton}]
    /\ detResult.ret.screen_id = "unknown" /\ detResult.ret.error = PyNone

(***************************************************************************)
(* The popup/toast watcher of one device (mcp_server.py): the registries   *)
(* _popup_patterns, _popup_history, _popup_threads and _popup_enabled at   *)
(* the key serial, the lock _popup_lock, the watcher threads running       *)
(* _popup_watcher_loop, and one foreground caller of the popup tools.      *)
(* A dict is a record or a function; a dict the code only appends to and   *)
(* replaces is a sequence.                                                 *)
(***************************************************************************)
MAX_POPUP_HISTORY == 100

\* dict.get(key, default)
Get(dict, key, default) == IF key \in DOMAIN dict THEN dict[key] ELSE default

\* the truth value of a string or None
Truthy(value) == value # PyNone /\ value # ""

\* the pattern dicts of the popup_configure docstring
SaveLoginInfo ==
    [name |-> "save_login_info",
     detect_xpath |-> "//*[@content-desc='Save your login info?']",
     dismiss_xpath |-> "//*[@text='Not now' or @text='Not Now']"]

\* a pattern without the key detect_xpath
NoDetectKey == [name |-> "notifications_prompt", dismiss_xpath |-> "//*[@text='Not Now']"]

\* a pattern whose detect_xpath is the empty string
EmptyDetect == [name |-> "test", detect_xpath |-> "", dismiss_xpath |-> "//*[@text='Not Now']"]

\* a pattern of the configuration file, of type toast
ToastPattern ==
    [name |-> "toast_message", type |-> "toast",
     detect_xpath |-> "//android.widget.Toast", dismiss_xpath |-> ""]

\* deque(maxlen=MAX_POPUP_HISTORY).append(record)
DequeAppend_Unbounded(history, record) == Append(history, record)

DequeAppend(history, record) ==
    IF Len(history) >= MAX_POPUP_HISTORY
    THEN Append(Tail(history), record)
    ELSE Append(history, record)

\* lines 1294-1297, 1355-1358, 1398-1401: create the deque if absent, append
HistoryAppended(record) ==
    Present(DequeAppend(IF popup_history.present THEN popup_history.value ELSE <<>>,
                        record))

\* ---- a watcher thread: its position in _popup_watcher_loop, its stop
\* event and its locals; raised tells that the handler of line 1405 ran in
\* the for loop under way (it logs the error at line 1407)
NoList == [alias |-> FALSE, items |-> <<>>]
NoRecord == [none |-> TRUE]

\* a thread at the entry of _popup_watcher_loop (line 1263)
NewLoop ==
    [pc |-> "while", stop |-> FALSE, patterns |-> NoList, idx |-> 0,
     toast_msg |-> PyNone, last_toast_text |-> PyNone, record |-> NoRecord,
     raised |-> FALSE]

\* a thread that returned from _popup_watcher_loop: its frame is gone
DeadLoop ==
    [pc |-> "dead", stop |-> TRUE, patterns |-> NoList, idx |-> 0,
     toast_msg |-> PyNone, last_toast_text |-> PyNone, record |-> NoRecord,
     raised |-> FALSE]

LoopIds == 1..Len(loops)

\* Thread.is_alive()
IsAlive(t) == loops[t].pc # "dead"

\* the list a thread's local patterns refers to: the list object held by
\* _popup_patterns[serial] when it read it (alias), or a list since replaced
PatternsOf(t) ==
    IF loops[t].patterns.alias THEN popup_patterns.value ELSE loops[t].patterns.items

\* _popup_patterns[serial] is bound to a new list object: the threads that
\* refer to the old object keep it, with the items it has
Detached(ls) ==
    [t \in 1..Len(ls) |->
        IF ls[t].patterns.alias
        THEN [ls[t] EXCEPT !.patterns = [alias |-> FALSE, items |-> popup_patterns.value]]
        ELSE ls[t]]

\* len(_popup_patterns.get(serial, []))
PatternCount == IF popup_patterns.present THEN Len(popup_patterns.value) ELSE 0

\* ---- bounds of the popup check
MaxCalls == 3
MaxLoops == 2
MaxPatterns == 2
MaxAppends == 1
MaxFairCalls == 1
MaxFairAppends == 1
MaxToastCalls == 2
MaxToastAppends == 2

\* the patterns arguments of popup_configure
ConfigureInputs == {<<>>, <<NoDetectKey, SaveLoginInfo>>, <<EmptyDetect>>}

\* the contents of popup_patterns.json: missing or without patterns, or a list
FileContents == {<<>>, <<ToastPattern, SaveLoginInfo>>}

\* the positions of a thread or of the caller between the two locked
\* sections of _auto_setup_popup_watcher and _start_popup_watcher
PendingStarts ==
    Cardinality({t \in LoopIds : loops[t].pc \in {"auto_setup", "start_watcher"}})
        + (IF callPc \in {"auto_setup", "start_watcher"} THEN 1 ELSE 0)

\* a further thread can be started within the bound
CanStart == Len(loops) + PendingStarts < MaxLoops

\* lines 137 and 1519: serial in _popup_threads and the thread is alive
AlreadyRunning == popup_threads.present /\ IsAlive(popup_threads.value)

\* ---- _start_popup_watcher (lines 136-155), run under the lock: the threads
\* and the handles it leaves
StartsThread == ~AlreadyRunning /\ PatternCount > 0

StartedLoops(ls) == IF StartsThread THEN Append(ls, NewLoop) ELSE ls

StartedHandle(current) == IF StartsThread THEN Present(Len(loops) + 1) ELSE current

\* ---- _auto_setup_popup_watcher (lines 104-128), run under the lock. With
\* one device no other device's patterns can be copied: both branches load
\* the file.
AutoSetupReturnsEarly == PatternCount > 0 \/ patternsFile = <<>>

AutoSetupLoaded == IF PatternCount > 0 THEN default_patterns_loaded ELSE TRUE

AutoSetupPatterns == IF AutoSetupReturnsEarly THEN popup_patterns ELSE Present(patternsFile)

AutoSetupLoops(ls) ==
    IF ~AutoSetupReturnsEarly /\ popup_patterns.present THEN Detached(ls) ELSE ls

\* ---- popup_configure (lines 1459-1477)
\* line 1466: the validation of a supplied pattern
HasDetect(p) == "detect_xpath" \in DOMAIN p

RECURSIVE ConfigureAdd(_, _)
ConfigureAdd(list, patterns) ==
    IF patterns = <<>> THEN list
    ELSE LET p == Head(patterns) IN
         IF ~HasDetect(p) THEN ConfigureAdd(list, Tail(patterns))
         ELSE ConfigureAdd(
                Append(list,
                       [name |-> Get(p, "name", "pattern_" \o ToString(Len(list))),
                        detect_xpath |-> p.detect_xpath,
                        dismiss_xpath |-> Get(p, "dismiss_xpath", "")]),
                Tail(patterns))

\* line 1460: the list is created or replaced
ConfigureResets(append) == ~popup_patterns.present \/ ~append

ConfigureBase(append) == IF ConfigureResets(append) THEN <<>> ELSE popup_patterns.value

PopupConfigure(patterns, append) ==
    /\ callPc = "idle" /\ callsMade < callBudget
    /\ ~popup_lock
    /\ LET list == ConfigureAdd(ConfigureBase(append), patterns) IN
        /\ Len(list) <= MaxPatterns
        /\ popup_patterns' = Present(list)
    /\ loops' = IF ConfigureResets(append) /\ popup_patterns.present
                THEN Detached(loops) ELSE loops
    /\ callsMade' = callsMade + 1
    /\ UNCHANGED <<callPc, popup_history, popup_threads, popup_enabled, popup_lock,
                   default_patterns_loaded, patternsFile, driverCached, appended, clock>>
    /\ UNCHANGED <<callBudget, recordBudget, scoreVars, pathVars, navVars, detVars, extVars>>

\* ---- popup_enable (lines 1517-1548)
PopupEnable ==
    /\ callPc = "idle" /\ callsMade < callBudget
    /\ ~popup_lock
    /\ IF AlreadyRunning
       THEN \* status already_running
            UNCHANGED <<popup_enabled, popup_threads, loops>>
       ELSE IF PatternCount = 0
       THEN \* status no_patterns
            UNCHANGED <<popup_enabled, popup_threads, loops>>
       ELSE \* status started
            /\ CanStart
            /\ popup_enabled' = Present(Len(loops) + 1)
            /\ popup_threads' = Present(Len(loops) + 1)
            /\ loops' = Append(loops, NewLoop)
    /\ callsMade' = callsMade + 1
    /\ UNCHANGED <<callPc, popup_patterns, popup_history, popup_lock,
                   default_patterns_loaded, patternsFile, driverCached, appended, clock>>
    /\ UNCHANGED <<callBudget, recordBudget, scoreVars, pathVars, navVars, detVars, extVars>>

\* ---- popup_disable (lines 1576-1597)
\* the positions where a thread runs no code of its own: it waits for the
\* device or the driver to answer, or for _popup_lock
DevicePcs == {"get_driver", "toast_read", "toast_reset", "check"}
LockPcs == {"read_patterns", "auto_setup", "start_watcher", "toast_record", "append"}

\* line 1590: thread.join(timeout=3.0) returns because the thread ended ...
Joined(t) == ~IsAlive(t)

\* ... or because of the timeout, the thread still waiting for the device or
\* for the lock this call holds
JoinTimesOut(t) == IsAlive(t) /\ loops[t].pc \in DevicePcs \cup LockPcs

\* lines 1576-1585: take the lock, return if there is no stop event, set it
PopupDisableBegin ==
    /\ callPc = "idle" /\ callsMade < callBudget
    /\ ~popup_lock
    /\ IF ~popup_enabled.present
       THEN \* status not_running
            UNCHANGED <<callPc, popup_lock, loops>>
       ELSE /\ loops' = [loops EXCEPT ![popup_enabled.value].stop = TRUE]
            /\ popup_lock' = TRUE
            /\ callPc' = "join"
    /\ callsMade' = callsMade + 1
    /\ UNCHANGED <<popup_patterns, popup_history, popup_threads, popup_enabled,
                   default_patterns_loaded, patternsFile, driverCached, appended, clock>>
    /\ UNCHANGED <<callBudget, recordBudget, scoreVars, pathVars, navVars, detVars, extVars>>

\* lines 1595 and 1597: del _popup_threads[serial], del _popup_enabled[serial]
AfterDel_Kept(entry) == entry

AfterDel(entry) == Absent

\* lines 1588-1597: join with the timeout, delete the handles, release
PopupDisableJoin ==
    /\ callPc = "join"
    /\ popup_threads.present =>
          Joined(popup_threads.value) \/ JoinTimesOut(popup_threads.value)
    /\ popup_threads' = AfterDel(popup_threads)
    /\ popup_enabled' = AfterDel(popup_enabled)
    /\ popup_lock' = FALSE
    /\ callPc' = "idle"
    /\ UNCHANGED <<callsMade, loops, popup_patterns, popup_history,
                   default_patterns_loaded, patternsFile, driverCached, appended, clock>>
    /\ UNCHANGED <<callBudget, recordBudget, scoreVars, pathVars, navVars, detVars, extVars>>

\* ---- popup_history (lines 1611-1663)
\* list(reversed(list(history)))
Reversed(seq) == [i \in 1..Len(seq) |-> seq[Len(seq) + 1 - i]]

\* line 1647: seq[:limit], a Python slice: a negative limit counts from the end
SliceTo(seq, limit) ==
    LET n == Len(seq)
        stop == IF limit >= 0 THEN (IF limit < n THEN limit ELSE n)
                ELSE (IF n + limit > 0 THEN n + limit ELSE 0)
    IN SubSeq(seq, 1, stop)

\* line 1614: limit: int = 20
DefaultLimit == 20

\* the limit arguments of popup_history
HistoryLimits == {-1, 0, 1, DefaultLimit}

\* lines 1643-1663: the dict popup_history returns, read under the lock
\* (pattern_count after it)
PopupHistoryReturn(limit) ==
    LET history == IF popup_history.present THEN popup_history.value ELSE <<>>
        entries == SliceTo(Reversed(history), limit)
    IN [entries |-> entries,
        total |-> Len(history),
        returned |-> Len(entries),
        watcher_active |-> AlreadyRunning,
        pattern_count |-> PatternCount]

\* lines 1642-1655: take the lock, read the buffer, clear it if asked
PopupHistory(clear) ==
    /\ callPc = "idle" /\ callsMade < callBudget
    /\ ~popup_lock
    /\ IF clear /\ popup_history.present
       THEN popup_history' = Present(<<>>) /\ appended' = <<>>
       ELSE UNCHANGED <<popup_history, appended>>
    /\ callsMade' = callsMade + 1
    /\ UNCHANGED <<callPc, loops, popup_patterns, popup_threads, popup_enabled, popup_lock,
                   default_patterns_loaded, patternsFile, driverCached, clock>>
    /\ UNCHANGED <<callBudget, recordBudget, scoreVars, pathVars, navVars, detVars, extVars>>

\* ---- popup_check (lines 1703-1734) and the get_driver it calls (166-185)
\* the patterns arguments of popup_check: None, or a list
CheckInputs == {PyNone, <<SaveLoginInfo>>}

\* line 1703: driver = get_driver(serial)
PopupCheckBegin(patterns) ==
    /\ callPc = "idle" /\ callsMade < callBudget
    /\ callPc' = "get_driver"
    /\ callsMade' = callsMade + 1
    /\ UNCHANGED <<loops, popup_patterns, popup_history, popup_threads, popup_enabled,
                   popup_lock, default_patterns_loaded, patternsFile, driverCached,
                   appended, clock>>
    /\ UNCHANGED <<callBudget, recordBudget, scoreVars, pathVars, navVars, detVars, extVars>>

\* lines 166-180: a cached driver is returned; otherwise the device is looked
\* up, which raises if it is not found or not enabled
CallerGetDriver ==
    /\ callPc = "get_driver"
    /\ IF driverCached
       THEN callPc' = "check_scan"
       ELSE \/ callPc' = "idle"
            \/ CanStart /\ callPc' = "auto_setup"
    /\ UNCHANGED <<callsMade, loops, popup_patterns, popup_history, popup_threads,
                   popup_enabled, popup_lock, default_patterns_loaded, patternsFile,
                   driverCached, appended, clock>>
    /\ UNCHANGED <<callBudget, recordBudget, scoreVars, pathVars, navVars, detVars, extVars>>

\* lines 104-128: the locked section of _auto_setup_popup_watcher; on its
\* early returns get_driver returns and the driver is cached
CallerAutoSetup ==
    /\ callPc = "auto_setup"
    /\ ~popup_lock
    /\ default_patterns_loaded' = AutoSetupLoaded
    /\ popup_patterns' = AutoSetupPatterns
    /\ loops' = AutoSetupLoops(loops)
    /\ IF AutoSetupReturnsEarly
       THEN driverCached' = TRUE /\ callPc' = "check_scan"
       ELSE UNCHANGED driverCached /\ callPc' = "start_watcher"
    /\ UNCHANGED <<callsMade, popup_history, popup_threads,
                   popup_enabled, popup_lock, patternsFile, appended, clock>>
    /\ UNCHANGED <<callBudget, recordBudget, scoreVars, pathVars, navVars, detVars, extVars>>

\* line 131: _start_popup_watcher, then get_driver returns
CallerStartWatcher ==
    /\ callPc = "start_watcher"
    /\ ~popup_lock
    /\ loops' = StartedLoops(loops)
    /\ popup_enabled' = StartedHandle(popup_enabled)
    /\ popup_threads' = StartedHandle(popup_threads)
    /\ driverCached' = TRUE
    /\ callPc' = "check_scan"
    /\ UNCHANGED <<callsMade, popup_patterns, popup_history,
                   popup_lock, default_patterns_loaded, patternsFile, appended, clock>>
    /\ UNCHANGED <<callBudget, recordBudget, scoreVars, pathVars, navVars, detVars, extVars>>

\* lines 1706-1734: read the patterns under the lock, test each on the device
PopupCheckScan ==
    /\ callPc = "check_scan"
    /\ ~popup_lock
    /\ callPc' = "idle"
    /\ UNCHANGED <<callsMade, loops, popup_patterns, popup_history, popup_threads,
                   popup_enabled, popup_lock, default_patterns_loaded, patternsFile,
                   driverCached, appended, clock>>
    /\ UNCHANGED <<callBudget, recordBudget, scoreVars, pathVars, navVars, detVars, extVars>>

\* ---- _popup_watcher_loop (lines 1256-1416), thread t
\* the toast texts the device reports
ToastTexts == {"Saved", "Link copied"}

\* lines 1265 and 1312: stop_event.is_set()
Cancelled_Never(t) == FALSE

Cancelled(t) == loops[t].stop

LoopFrame == <<popup_patterns, popup_threads, popup_enabled, popup_lock,
               default_patterns_loaded, patternsFile, callPc,
               callsMade>>

\* line 1265: while not stop_event.is_set(); line 1416 after the loop
LoopWhile(t) ==
    /\ t \in LoopIds
    /\ loops[t].pc = "while"
    /\ loops' = [loops EXCEPT ![t] = IF Cancelled(t) THEN DeadLoop
                                     ELSE [@ EXCEPT !.pc = "read_patterns"]]
    /\ UNCHANGED <<LoopFrame, driverCached, popup_history, appended, clock>>
    /\ UNCHANGED <<callBudget, recordBudget, scoreVars, pathVars, navVars, detVars, extVars>>

\* lines 1267-1268: patterns = _popup_patterns.get(serial, []), under the lock
LoopReadPatterns(t) ==
    /\ t \in LoopIds
    /\ loops[t].pc = "read_patterns"
    /\ ~popup_lock
    /\ loops' = [loops EXCEPT ![t].pc = "get_driver",
                              ![t].patterns = IF popup_patterns.present
                                              THEN [alias |-> TRUE, items |-> <<>>]
                                              ELSE NoList]
    /\ UNCHANGED <<LoopFrame, driverCached, popup_history, appended, clock>>
    /\ UNCHANGED <<callBudget, recordBudget, scoreVars, pathVars, navVars, detVars, extVars>>

\* line 1270: driver = get_driver(serial); an exception reaches line 1412
LoopGetDriver(t) ==
    /\ t \in LoopIds
    /\ loops[t].pc = "get_driver"
    /\ IF driverCached
       THEN loops' = [loops EXCEPT ![t].pc = "toast_read"]
       ELSE \/ loops' = [loops EXCEPT ![t].pc = "backoff"]
            \/ CanStart /\ loops' = [loops EXCEPT ![t].pc = "auto_setup"]
    /\ UNCHANGED <<LoopFrame, driverCached, popup_history, appended, clock>>
    /\ UNCHANGED <<callBudget, recordBudget, scoreVars, pathVars, navVars, detVars, extVars>>

LoopAutoSetup(t) ==
    /\ t \in LoopIds
    /\ loops[t].pc = "auto_setup"
    /\ ~popup_lock
    /\ default_patterns_loaded' = AutoSetupLoaded
    /\ popup_patterns' = AutoSetupPatterns
    /\ loops' = [AutoSetupLoops(loops) EXCEPT
                    ![t].pc = IF AutoSetupReturnsEarly THEN "toast_read" ELSE "start_watcher"]
    /\ driverCached' = (driverCached \/ AutoSetupReturnsEarly)
    /\ UNCHANGED <<popup_threads, popup_enabled, popup_lock, patternsFile, callPc,
                   callsMade, popup_history, appended, clock>>
    /\ UNCHANGED <<callBudget, recordBudget, scoreVars, pathVars, navVars, detVars, extVars>>

LoopStartWatcher(t) ==
    /\ t \in LoopIds
    /\ loops[t].pc = "start_watcher"
    /\ ~popup_lock
    /\ loops' = StartedLoops([loops EXCEPT ![t].pc = "toast_read"])
    /\ popup_enabled' = StartedHandle(popup_enabled)
    /\ popup_threads' = StartedHandle(popup_threads)
    /\ driverCached' = TRUE
    /\ UNCHANGED <<popup_patterns, popup_lock, default_patterns_loaded, patternsFile,
                   callPc, callsMade, popup_history, appended, clock>>
    /\ UNCHANGED <<callBudget, recordBudget, scoreVars, pathVars, navVars, detVars, extVars>>

\* lines 1304-1306 and 1311: after the toast capture, sleep if the list is
\* empty, else start the for loop
AfterToast(t, loop) ==
    IF Len(PatternsOf(t)) = 0
    THEN [loop EXCEPT !.pc = "sleep"]
    ELSE [loop EXCEPT !.pc = "for", !.idx = 1]

\* line 1281: a text is read and differs from the one recorded last
IsNewToast_Always(toast_msg, last) == Truthy(toast_msg)

IsNewToast(toast_msg, last) == Truthy(toast_msg) /\ toast_msg # last

\* lines 1286-1292
ToastRecord(toast_msg, timestamp) ==
    [name |-> "native_toast", type |-> "toast", timestamp |-> timestamp,
     captured_text |-> toast_msg]

\* lines 1278-1292: read d.last_toast; the read may raise (line 1301)
LoopToastRead(t) ==
    /\ t \in LoopIds
    /\ loops[t].pc = "toast_read"
    /\ \/ /\ loops' = [loops EXCEPT ![t] = AfterToast(t, @)]
          /\ UNCHANGED clock
       \/ \E toast_msg \in {PyNone} \cup ToastTexts :
            IF IsNewToast(toast_msg, loops[t].last_toast_text)
            THEN /\ clock < recordBudget
                 /\ clock' = clock + 1
                 /\ loops' = [loops EXCEPT ![t].toast_msg = toast_msg,
                                           ![t].last_toast_text = toast_msg,
                                           ![t].record = ToastRecord(toast_msg, clock + 1),
                                           ![t].pc = "toast_record"]
            ELSE /\ loops' = [loops EXCEPT
                                ![t] = AfterToast(t, [@ EXCEPT !.toast_msg = toast_msg])]
                 /\ UNCHANGED clock
    /\ UNCHANGED <<LoopFrame, driverCached, popup_history, appended>>
    /\ UNCHANGED <<callBudget, recordBudget, scoreVars, pathVars, navVars, detVars, extVars>>

\* lines 1294-1297: append the record under the lock
LoopToastRecord(t) ==
    /\ t \in LoopIds
    /\ loops[t].pc = "toast_record"
    /\ ~popup_lock
    /\ popup_history' = HistoryAppended(loops[t].record)
    /\ appended' = Append(appended, loops[t].record)
    /\ loops' = [loops EXCEPT ![t].record = NoRecord, ![t].pc = "toast_reset"]
    /\ UNCHANGED <<LoopFrame, driverCached, clock>>
    /\ UNCHANGED <<callBudget, recordBudget, scoreVars, pathVars, navVars, detVars, extVars>>

\* line 1300: d.toast.reset(), whether it raises or not
LoopToastReset(t) ==
    /\ t \in LoopIds
    /\ loops[t].pc = "toast_reset"
    /\ loops' = [loops EXCEPT ![t] = AfterToast(t, @)]
    /\ UNCHANGED <<LoopFrame, driverCached, popup_history, appended, clock>>
    /\ UNCHANGED <<callBudget, recordBudget, scoreVars, pathVars, navVars, detVars, extVars>>

\* the pattern the for loop of thread t has in hand
PatternAt(t) == PatternsOf(t)[loops[t].idx]

\* lines 1405-1407: an exception of one pattern's check is caught inside the
\* for loop, which goes on with the next pattern
OnPatternError_Backoff(loop) == [loop EXCEPT !.pc = "backoff", !.idx = 0, !.raised = TRUE]

OnPatternError(loop) == [loop EXCEPT !.pc = "for", !.idx = @ + 1, !.raised = TRUE]

\* lines 1311-1319: the next pattern, if any and if not cancelled; a pattern
\* without a detect_xpath is skipped; otherwise its check starts
LoopFor(t) ==
    /\ t \in LoopIds
    /\ loops[t].pc = "for"
    /\ loops' = [loops EXCEPT ![t] =
                    IF @.idx > Len(PatternsOf(t))
                    THEN [@ EXCEPT !.pc = "sleep", !.idx = 0, !.raised = FALSE]
                    ELSE IF Cancelled(t)
                    THEN [@ EXCEPT !.pc = "sleep", !.idx = 0, !.raised = FALSE]
                    ELSE IF ~Truthy(Get(PatternAt(t), "detect_xpath", ""))
                         THEN [@ EXCEPT !.idx = @ + 1]
                    ELSE [@ EXCEPT !.pc = "check"]]
    /\ UNCHANGED <<LoopFrame, driverCached, popup_history, appended, clock>>
    /\ UNCHANGED <<callBudget, recordBudget, scoreVars, pathVars, navVars, detVars, extVars>>

\* lines 1346-1353 and 1387-1396: the record of a detected pattern; the
\* fields filled from the device's later answers (captured_text, dismissed,
\* verified, message) are not kept
PatternRecord(pattern, timestamp) ==
    [name |-> Get(pattern, "name", "unnamed"),
     type |-> IF Get(pattern, "type", "popup") = "toast" THEN "toast" ELSE "popup",
     timestamp |-> timestamp]

\* lines 1322 and 1405-1407: a device call of the pattern's check raises
LoopCheckRaises(t) ==
    /\ t \in LoopIds
    /\ loops[t].pc = "check"
    /\ loops' = [loops EXCEPT ![t] = OnPatternError(@)]
    /\ UNCHANGED <<LoopFrame, driverCached, popup_history, appended, clock>>
    /\ UNCHANGED <<callBudget, recordBudget, scoreVars, pathVars, navVars, detVars, extVars>>

\* lines 1322-1401: the device calls of one pattern: the test of its
\* detect_xpath finds nothing, or finds the pattern, which is then handled
\* and recorded
LoopCheck(t) ==
    /\ t \in LoopIds
    /\ loops[t].pc = "check"
    /\ \/ loops' = [loops EXCEPT ![t].idx = @ + 1, ![t].pc = "for"] /\ UNCHANGED clock
       \/ /\ clock < recordBudget
          /\ clock' = clock + 1
          /\ loops' = [loops EXCEPT ![t].record = PatternRecord(PatternAt(t), clock + 1),
                                    ![t].pc = "append"]
    /\ UNCHANGED <<LoopFrame, driverCached, popup_history, appended>>
    /\ UNCHANGED <<callBudget, recordBudget, scoreVars, pathVars, navVars, detVars, extVars>>

\* lines 1355-1358 and 1398-1401: append the record under the lock
LoopAppend(t) ==
    /\ t \in LoopIds
    /\ loops[t].pc = "append"
    /\ ~popup_lock
    /\ popup_history' = HistoryAppended(loops[t].record)
    /\ appended' = Append(appended, loops[t].record)
    /\ loops' = [loops EXCEPT ![t].record = NoRecord, ![t].pc = "for", ![t].idx = @ + 1]
    /\ UNCHANGED <<LoopFrame, driverCached, clock>>
    /\ UNCHANGED <<callBudget, recordBudget, scoreVars, pathVars, navVars, detVars, extVars>>

\* lines 1305 and 1410: stop_event.wait(0.5) returns, on the event or in time
LoopSleep(t) ==
    /\ t \in LoopIds
    /\ loops[t].pc = "sleep"
    /\ loops' = [loops EXCEPT ![t].pc = "while"]
    /\ UNCHANGED <<LoopFrame, driverCached, popup_history, appended, clock>>
    /\ UNCHANGED <<callBudget, recordBudget, scoreVars, pathVars, navVars, detVars, extVars>>

\* lines 1412-1414: the handler of the loop body, stop_event.wait(2.0) returns
LoopBackoff(t) ==
    /\ t \in LoopIds
    /\ loops[t].pc = "backoff"
    /\ loops' = [loops EXCEPT ![t].pc = "while"]
    /\ UNCHANGED <<LoopFrame, driverCached, popup_history, appended, clock>>
    /\ UNCHANGED <<callBudget, recordBudget, scoreVars, pathVars, navVars, detVars, extVars>>

\* ---- the popup specification: the registries are empty, the file holds
\* one of its contents, and the caller and the threads take steps
PopupStart ==
    /\ ScoreIdle /\ PathIdle /\ NavIdle /\ DetIdle /\ ExtIdle
    /\ popup_patterns = Absent
    /\ popup_history = Absent
    /\ popup_threads = Absent
    /\ popup_enabled = Absent
    /\ popup_lock = FALSE
    /\ default_patterns_loaded = FALSE
    /\ patternsFile \in FileContents
    /\ driverCached = FALSE
    /\ loops = <<>>
    /\ callPc = "idle"
    /\ callsMade = 0
    /\ appended = <<>>
    /\ clock = 0

PopupInit == PopupStart /\ callBudget = MaxCalls /\ recordBudget = MaxAppends

\* the state after the first device access of a tool: get_driver (line 183)
\* has loaded the patterns of the file and started the watcher thread
WatcherStarted ==
    /\ ScoreIdle /\ PathIdle /\ NavIdle /\ DetIdle /\ ExtIdle
    /\ patternsFile \in FileContents \ {<<>>}
    /\ popup_patterns = Present(patternsFile)
    /\ popup_history = Absent
    /\ popup_threads = Present(1)
    /\ popup_enabled = Present(1)
    /\ popup_lock = FALSE
    /\ default_patterns_loaded = TRUE
    /\ driverCached = TRUE
    /\ loops = <<NewLoop>>
    /\ callPc = "idle"
    /\ callsMade = 0
    /\ appended = <<>>
    /\ clock = 0

FairPopupInit ==
    /\ PopupStart \/ WatcherStarted
    /\ callBudget = MaxFairCalls
    /\ recordBudget = MaxFairAppends

ToastInit == PopupStart /\ callBudget = MaxToastCalls /\ recordBudget = MaxToastAppends

\* get_driver is wrapped in lru_cache(maxsize=16) (line 165): the driver of
\* serial leaves the cache once 16 other serials were asked for
DriverEvicted ==
    /\ driverCached
    /\ driverCached' = FALSE
    /\ UNCHANGED <<popup_patterns, popup_history, popup_threads, popup_enabled, popup_lock,
                   default_patterns_loaded, patternsFile, loops, callPc, callsMade,
                   appended, clock>>
    /\ UNCHANGED <<callBudget, recordBudget, scoreVars, pathVars, navVars, detVars, extVars>>

CallerStep ==
    \/ \E patterns \in ConfigureInputs, append \in BOOLEAN : PopupConfigure(patterns, append)
    \/ PopupEnable
    \/ PopupDisableBegin
    \/ PopupDisableJoin
    \/ \E clear \in BOOLEAN : PopupHistory(clear)
    \/ \E patterns \in CheckInputs : PopupCheckBegin(patterns)
    \/ CallerGetDriver
    \/ CallerAutoSetup
    \/ CallerStartWatcher
    \/ PopupCheckScan

LoopStep(t) ==
    \/ LoopWhile(t)
    \/ LoopReadPatterns(t)
    \/ LoopGetDriver(t)
    \/ LoopAutoSetup(t)
    \/ LoopStartWatcher(t)
    \/ LoopToastRead(t)
    \/ LoopToastRecord(t)
    \/ LoopToastReset(t)
    \/ LoopFor(t)
    \/ LoopCheckRaises(t)
    \/ LoopCheck(t)
    \/ LoopAppend(t)
    \/ LoopSleep(t)
    \/ LoopBackoff(t)

PopupNext == CallerStep \/ DriverEvicted \/ \E t \in 1..MaxLoops : LoopStep(t)

PopupSpec == PopupInit /\ [][PopupNext]_vars

\* the same steps, followed for fewer calls and more records
ToastSpec == ToastInit /\ [][PopupNext]_vars

\* a step of thread t after its stop event was set
StoppedStep(t) == t \in LoopIds /\ loops[t].stop /\ LoopStep(t)

\* the scheduler runs every thread again and again, of which only this is
\* assumed: a thread whose stop event is set gets to take its steps, and
\* join(timeout=3.0) returns
FairPopupSpec ==
    /\ FairPopupInit /\ [][PopupNext]_vars
    /\ \A t \in 1..MaxLoops : WF_vars(StoppedStep(t))
    /\ WF_vars(PopupDisableJoin)

\* thread t returned from _popup_watcher_loop
Exited(t) == t \in LoopIds /\ loops[t].pc = "dead"

\* C14: once the stop event of a thread is set, the thread starts no check
\* of a pattern (one already started may finish), and it exits.
C14_CancelledLoopStops ==
    /\ [][\A t \in LoopIds :
            (loops[t].stop /\ loops[t].pc # "check") => loops'[t].pc # "check"]_vars
    /\ \A t \in 1..MaxLoops : (t \in LoopIds /\ loops[t].stop) ~> Exited(t)

\* a thread was cancelled and has exited while two patterns or more are
\* configured
C14_Witness ==
    /\ \E t \in LoopIds : Exited(t)
    /\ PatternCount >= 2


(***************************************************************************)
(* The range of a score                                                    *)
(***************************************************************************)
\* C11: the score of any signature on any element set lies in [0, 1]: the
\* optional boost added to the base (matched / required count, or 0.5 when no
\* required selector is declared) never gives a total above 1.0.
C11_ScoreInUnitInterval ==
    scoreResult.called =>
        /\ ScoreOf.den > 0
        /\ 0 <= ScoreOf.num
        /\ ScoreOf.num <= ScoreOf.den

\* every required selector matches and an optional one matches too, with no
\* unique match: the sum 1.0 + boost is returned as 1.0
C11_Witness ==
    /\ scoreResult.called
    /\ ~AnyMatches(sig.unique, elements)
    /\ ~AnyMatches(sig.forbidden, elements)
    /\ Len(sig.required) > 0
    /\ Len(MatchingOf(sig.required, elements)) = Len(sig.required)
    /\ AnyMatches(sig.optional, elements)
    /\ IsOne(ScoreOf)

(***************************************************************************)
(* The popup watcher: threads, lock and handles                            *)
(***************************************************************************)
LiveLoops == {t \in LoopIds : IsAlive(t)}

\* C12: at most one watcher thread of the device is alive at any time
\* (a thread is started only when no live one exists).
C12_AtMostOneLiveLoop == Cardinality(LiveLoops) <= 1

\* the thread whose end popup_disable waits for at line 1590
JoinedThread == popup_threads.value

\* C13: no call holds _popup_lock while it waits for a device call, its own
\* or one the watcher thread it joins has under way.
C13_NoDeviceWaitUnderLock ==
    ~(/\ popup_lock
      /\ callPc = "join"
      /\ popup_threads.present
      /\ IsAlive(JoinedThread)
      /\ loops[JoinedThread].pc \in DevicePcs)

\* C15: popup_disable removes the thread handle and the stop event and
\* leaves the pattern list and the history as they are, and so does a later
\* popup_enable; without a stop event popup_disable changes nothing.
C15_StopKeepsPatternsAndHistory ==
    [][/\ (PopupDisableBegin \/ PopupDisableJoin \/ PopupEnable)
            => UNCHANGED <<popup_patterns, popup_history, appended>>
       /\ PopupDisableJoin => (~popup_threads'.present /\ ~popup_enabled'.present)
       /\ (PopupDisableBegin /\ ~popup_enabled.present)
            => UNCHANGED <<popup_patterns, popup_history, popup_threads, popup_enabled,
                           popup_lock, loops, callPc>>]_vars

\* popup_disable has returned: no handle is left, a thread was started
\* before, and the patterns and a history record are still there
C15_Witness ==
    /\ callPc = "idle"
    /\ ~popup_threads.present /\ ~popup_enabled.present
    /\ Len(loops) > 0
    /\ PatternCount > 0
    /\ popup_history.present /\ Len(popup_history.value) > 0

(***************************************************************************)
(* The history buffer: appends of the watcher thread and clears            *)
(***************************************************************************)
MaxOverflow == 2
MaxHistoryCalls == 1

\* lines 1387-1401 on their own: a watcher thread builds the record of a
\* detected pattern and appends it under the lock
HistoryAppend ==
    /\ clock < recordBudget
    /\ ~popup_lock
    /\ LET record == PatternRecord(SaveLoginInfo, clock + 1) IN
        /\ popup_history' = HistoryAppended(record)
        /\ appended' = Append(appended, record)
    /\ clock' = clock + 1
    /\ UNCHANGED <<popup_patterns, popup_threads, popup_enabled, popup_lock,
                   default_patterns_loaded, patternsFile, driverCached, loops, callPc,
                   callsMade>>
    /\ UNCHANGED <<callBudget, recordBudget, scoreVars, pathVars, navVars, detVars, extVars>>

\* appends past the capacity of the buffer, and calls of popup_history
HistInit ==
    /\ PopupStart
    /\ callBudget = MaxHistoryCalls
    /\ recordBudget = MAX_POPUP_HISTORY + MaxOverflow

HistNext == HistoryAppend \/ \E clear \in BOOLEAN : PopupHistory(clear)

HistSpec == HistInit /\ [][HistNext]_vars

\* the last n entries of a sequence
LastEntries(seq, n) == SubSeq(seq, Len(seq) - n + 1, Len(seq))

\* C16: the history never holds more than MAX_POPUP_HISTORY records, and it
\* holds exactly the latest records appended since it was last cleared, in
\* the order of their insertion (the oldest ones are the ones evicted).
C16_HistoryIsRingBuffer ==
    IF popup_history.present
    THEN LET history == popup_history.value IN
         /\ Len(history) <= MAX_POPUP_HISTORY
         /\ Len(history) = IF Len(appended) <= MAX_POPUP_HISTORY
                           THEN Len(appended) ELSE MAX_POPUP_HISTORY
         /\ history = LastEntries(appended, Len(history))
    ELSE appended = <<>>

\* more records than the capacity were appended since the last clear: the
\* buffer is full and its first record is not the first one appended
C16_Witness ==
    /\ popup_history.present
    /\ Len(appended) > MAX_POPUP_HISTORY
    /\ Len(popup_history.value) = MAX_POPUP_HISTORY
    /\ popup_history.value[1] # appended[1]

(***************************************************************************)
(* The native toast capture of a watcher thread                            *)
(***************************************************************************)
\* thread t leaves the read of d.last_toast (line 1280) in this step
ToastPolled(t) == loops[t].pc = "toast_read" /\ loops'[t].pc # "toast_read"

\* C17: a poll that reads the text the previous poll of the thread read
\* builds no record; a poll that reads a non-empty text other than the one
\* the thread recorded last builds one toast record of that text, and the
\* thread's append puts exactly that one record at the end of the history.
C17_ToastRecordedOncePerChange ==
    [][\A t \in LoopIds :
        /\ (ToastPolled(t) /\ loops'[t].toast_msg = loops[t].toast_msg)
              => (loops'[t].pc # "toast_record" /\ clock' = clock)
        /\ (/\ ToastPolled(t)
            /\ Truthy(loops'[t].toast_msg)
            /\ loops'[t].toast_msg # loops[t].last_toast_text)
              => /\ loops'[t].pc = "toast_record"
                 /\ loops'[t].record = ToastRecord(loops'[t].toast_msg, clock')
                 /\ clock' = clock + 1
        /\ (loops[t].pc = "toast_record" /\ loops'[t].pc # "toast_record")
              => /\ popup_history'.present
                 /\ appended' = Append(appended, loops[t].record)
                 /\ Len(popup_history'.value) =
                        (IF popup_history.present THEN Len(popup_history.value) ELSE 0) + 1
                 /\ popup_history'.value[Len(popup_history'.value)] = loops[t].record]_vars

\* a thread recorded one toast text, then another one, and has then read the
\* second text again: the history holds the two records and no third one
C17_Witness ==
    \E t \in LoopIds :
        /\ loops[t].pc \in {"for", "sleep"}
        /\ loops[t].toast_msg = "Link copied"
        /\ loops[t].last_toast_text = "Link copied"
        /\ popup_history.present
        /\ Len(popup_history.value) = 2
        /\ popup_history.value[1].name = "native_toast"
        /\ popup_history.value[1].captured_text = "Saved"
        /\ popup_history.value[2].name = "native_toast"
        /\ popup_history.value[2].captured_text = "Link copied"
        /\ clock = 2

(***************************************************************************)
(* Errors of one pattern's check                                           *)
(***************************************************************************)
\* C18: an exception raised by the check of one pattern leaves the thread
\* in its for loop, at the next pattern of the same list; and the for loop
\* then starts the check of that pattern (if there is one with a
\* detect_xpath and the thread is not cancelled).
C18_PatternErrorIsSkipped ==
    [][\A t \in 1..MaxLoops :
        /\ LoopCheckRaises(t)
              => /\ loops'[t].pc = "for"
                 /\ loops'[t].idx = loops[t].idx + 1
                 /\ loops'[t].patterns = loops[t].patterns
                 /\ popup_patterns' = popup_patterns
        /\ (/\ LoopFor(t)
            /\ loops[t].raised
            /\ ~loops[t].stop
            /\ loops[t].idx <= Len(PatternsOf(t))
            /\ Truthy(Get(PatternAt(t), "detect_xpath", "")))
              => /\ loops'[t].pc = "check"
                 /\ loops'[t].idx = loops[t].idx]_vars

\* the check of an earlier pattern raised in this for loop, and the check of
\* a later pattern is under way
C18_Witness ==
    \E t \in LoopIds :
        /\ loops[t].raised
        /\ loops[t].pc = "check"
        /\ loops[t].idx >= 2

(***************************************************************************)
(* popup_check and popup_configure                                         *)
(***************************************************************************)
\* a step of popup_check, the get_driver it calls included
PopupCheckStep ==
    \/ \E patterns \in CheckInputs : PopupCheckBegin(patterns)
    \/ CallerGetDriver
    \/ CallerAutoSetup
    \/ CallerStartWatcher
    \/ PopupCheckScan

\* C19: popup_check changes none of the pattern list, the history, the
\* thread handle and the stop event of the device, and starts no thread,
\* whether the device was accessed before or not.
C19_CheckHasNoSideEffects ==
    [][PopupCheckStep =>
         /\ UNCHANGED <<popup_patterns, popup_history, popup_threads, popup_enabled>>
         /\ Len(loops') = Len(loops)]_vars

\* the supplied patterns that have a non-empty detect selector
WithDetect(patterns) ==
    SelectSeq(patterns, LAMBDA p : Truthy(Get(p, "detect_xpath", "")))

\* C20: the patterns a popup_configure call adds all have a non-empty
\* detect selector: they are the supplied patterns that have one.
C20_AddedPatternsHaveDetect ==
    [][\A patterns \in ConfigureInputs, append \in BOOLEAN :
         PopupConfigure(patterns, append) =>
            LET base  == Len(ConfigureBase(append))
                list  == popup_patterns'.value
            IN  /\ Len(list) = base + Len(WithDetect(patterns))
                /\ \A k \in (base + 1)..Len(list) : Truthy(list[k].detect_xpath)]_vars


(***************************************************************************)
(* popup_history: what it returns and what it leaves in the buffer         *)
(***************************************************************************)
\* the buffer a popup_history call reads
HistoryRead == IF popup_history.present THEN popup_history.value ELSE <<>>

\* the k most recently appended records of the buffer, newest first
NewestFirst(history, k) == [i \in 1..k |-> history[Len(history) + 1 - i]]

\* the number of records asked for, none for a limit below 0
AskedFor(limit, n) == IF limit < 0 THEN 0 ELSE IF limit < n THEN limit ELSE n

\* C21: a popup_history call returns the min(limit, n) most recently
\* appended records, newest first, n being the length of the buffer at the
\* call; total is n; with clear the buffer is empty afterwards, without it
\* the buffer is unchanged.
C21_HistoryReturnsNewest ==
    [][\A clear \in BOOLEAN : PopupHistory(clear) =>
        /\ \A limit \in HistoryLimits :
            LET r == PopupHistoryReturn(limit)
                n == Len(HistoryRead)
            IN /\ r.entries = NewestFirst(HistoryRead, AskedFor(limit, n))
               /\ r.total = n
        /\ IF clear
           THEN popup_history'.present => popup_history'.value = <<>>
           ELSE popup_history' = popup_history]_vars

(***************************************************************************)
(* The snapshot cache of the detector                                      *)
(***************************************************************************)
\* a detect_screen call is made in this step
DetectStep == detCallNo' = detCallNo + 1

\* C22: _get_ui_hierarchy returns the cached tree without a dump when
\* force_refresh is false, a tree is cached and its age is below 500 ms; in
\* every other case it makes exactly one dump, and on success the dumped tree
\* is the cached one, the timestamp is the time of the call, and the element
\* set is emptied (the call's extraction then derives it from the new tree).
C22_CacheServedOrOneDump ==
    [][DetectStep =>
        IF /\ ~detCall'.force_refresh
           /\ ~cachedHierarchy.none
           /\ now - cacheTimestamp < 500
        THEN /\ dumpCalls' = 0
             /\ snapshot' = Returned(cachedHierarchy)
             /\ cachedHierarchy' = cachedHierarchy
             /\ cacheTimestamp' = cacheTimestamp
        ELSE /\ dumpCalls' = 1
             /\ ~snapshot'.ret.none =>
                   /\ cachedHierarchy' = snapshot'.ret
                   /\ cacheTimestamp' = now
                   /\ cachedElements' = Extracted[snapshot'.ret.nodes]]_vars

\* the second call was served from a cache half a TTL old, without a dump
C22_Witness ==
    /\ detCallNo = 2 /\ dumpCalls = 0
    /\ ~detCall.force_refresh
    /\ now - cacheTimestamp = CACHE_TTL_MS \div 2
    /\ snapshot = Returned(cachedHierarchy)
    /\ cachedHierarchy.nodes # {}

\* C23: when the device dump of a detect_screen call fails, the call returns
\* screen_id "unknown", confidence 0.0 and an error, and it leaves the cached
\* tree, the cached element set, the detection counter and the unknown
\* counter as they were.
C23_DumpFailureIsErrorResult ==
    [][(DetectStep /\ dumpCalls' = 1 /\ snapshot'.ret.none) =>
          /\ detResult'.called
          /\ detResult'.ret.screen_id = "unknown"
          /\ IsZero(detResult'.ret.confidence)
          /\ detResult'.ret.error # PyNone
          /\ cachedHierarchy' = cachedHierarchy
          /\ cachedElements' = cachedElements
          /\ detectionCount' = detectionCount
          /\ unknownCount' = unknownCount]_vars

\* the dump of the second call failed while a tree and its elements were
\* cached: they are still there, and the call returned an error
C23_Witness ==
    /\ detCallNo = 2 /\ dumpCalls = 1
    /\ snapshot = Returned(NoHierarchy)
    /\ ~cachedHierarchy.none /\ cachedElements # {}
    /\ detResult.ret.screen_id = "unknown" /\ detResult.ret.error # PyNone
    /\ detectionCount = 1

\* C24: a detect_screen call for an app_id with no registered signatures
\* returns a result whose error is set, whatever include_system is, and
\* leaves the unknown counter as it was.
C24_UnregisteredAppIsError ==
    [][(DetectStep /\ detCall'.app_id \notin DOMAIN Registry) =>
          /\ detResult'.called
          /\ detResult'.ret.error # PyNone
          /\ unknownCount' = unknownCount]_vars

(***************************************************************************)
(* Required selectors                                                      *)
(***************************************************************************)
\* C25: for a signature none of whose unique selectors matches, a score
\* above 0 implies that every required selector matches the element set.
C25_RequiredIsConjunction ==
    (/\ scoreResult.called
     /\ ~AnyMatches(sig.unique, elements)
     /\ ~IsZero(ScoreOf)) =>
        \A k \in 1..Len(sig.required) : SelectorMatches(sig.required[k], elements)

(***************************************************************************)
(* Recovery to a safe state                                                *)
(***************************************************************************)
\* the members of a context's safe set that the graph reaches from a screen
ReachableSafe(context, screen) ==
    {t \in SafeTargets(context) : HasPath(NavigatorGraph, screen, t)}

\* number of edges of the shortest path between two screens
Hops(from_screen, to_screen) == Len(FindPath(NavigatorGraph, from_screen, to_screen).steps)

Count(seq, x) == Cardinality({i \in 1..Len(seq) : seq[i] = x})

\* the list given to the latest register call of an app, empty without one
LastRegistered(app_id) == IF app_id \in DOMAIN regLast THEN regLast[app_id] ELSE <<>>

\* C27: after any sequence of register calls, get_signatures(app,
\* include_system) holds exactly the signatures of the list of the latest
\* register call for app, each as often as that list holds it, and with
\* include_system and an app other than android_system also those of the
\* latest list of android_system, in non-increasing priority; and
\* get_signature(app, screen_id) returns a member of app's latest list that
\* has this screen_id, or None when that list has none.
C27_RegistryHoldsLastLists ==
    /\ \A app_id \in AppIds, include_system \in BOOLEAN :
          LET sigs == GetSignatures(regSignatures, app_id, include_system)
              expected == IF include_system /\ app_id # "android_system"
                          THEN LastRegistered(app_id) \o LastRegistered("android_system")
                          ELSE LastRegistered(app_id)
          IN  /\ Len(sigs) = Len(expected)
              /\ \A s \in RegPool : Count(sigs, s) = Count(expected, s)
              /\ \A i \in 1..(Len(sigs) - 1) : sigs[i].priority >= sigs[i + 1].priority
    /\ \A app_id \in AppIds, screen_id \in {"home_feed", "peek_view", "reel_viewing"} :
          LET found == GetSignature(regByScreenId, app_id, screen_id)
              last == LastRegistered(app_id)
              with_id == {i \in 1..Len(last) : last[i].screen_id = screen_id}
          IN  IF with_id = {} THEN found = PyNone
              ELSE \E i \in with_id : found = last[i]

\* three register calls on two namespaces, so that a list replaced an
\* earlier one: the app's latest list holds two signatures of one screen_id
\* in increasing priority, and its merged list holds those of both namespaces
C27_Witness ==
    /\ regCalls = 3
    /\ Len(LastRegistered("instagram")) = 2
    /\ Len(LastRegistered("android_system")) = 2
    /\ LastRegistered("instagram")[1].priority < LastRegistered("instagram")[2].priority
    /\ LastRegistered("instagram")[1].screen_id = LastRegistered("instagram")[2].screen_id
    /\ Len(GetSignatures(regSignatures, "instagram", TRUE)) = 4

(***************************************************************************)
(* Exceptions inside search_for_keyword                                    *)
(***************************************************************************)
\* C28: search_for_keyword never raises: once a call of the device, the
\* detector or the navigator has raised at any stage, the call is in its
\* except clause or has returned, and what it returns has success false,
\* result type failed, the message of the exception as error_message, and
\* as final screen what the detection of the except clause gave, "unknown"
\* when that detection raised.
C28_SearchNeverRaises ==
    /\ srchPc # "raised"
    /\ srchError.called => srchPc \in {"handler", "done"}
    /\ (srchPc = "done" /\ srchError.called) =>
          /\ srchResult.called
          /\ srchResult.ret.success = FALSE
          /\ srchResult.ret.result_type = "failed"
          /\ srchResult.ret.error_message = srchError.ret.message
          /\ srchResult.ret.final_screen =
                (IF srchLastDetect.ret.raised THEN "unknown"
                 ELSE srchLastDetect.ret.value)

\* the timeout had run out before the first stabilising detection, line 234
\* raised on the unassigned result_type, and the detection of the except
\* clause raised as well
C28_Witness ==
    /\ srchPc = "done" /\ srchError.called
    /\ srchError.ret.class = "UnboundLocalError"
    /\ srchTries = 0
    /\ srchLastDetect.ret.raised
    /\ srchResult.ret.final_screen = "unknown"

(***************************************************************************)
(* The actions of a step                                                   *)
(***************************************************************************)
\* the action cannot work: the device raised, the element was not found,
\* the action lacks the target it needs, or its type is not known
ActionFails(action, dev) ==
    \/ dev \in {"raises", "missing", "no call"}
    \/ action.action_type \notin {"press_back", "swipe_down", "swipe_up", "wait",
                                  "click_tab", "click_text", "click_content_desc",
                                  "click_element", "launch_app"}

\* C29: _execute_step calls _execute_action on its edge's actions in their
\* declared order, from the first on without gap; it returns True exactly
\* when every action worked; otherwise the last action it executed is the
\* first that failed, no later action is executed, and it returns False.  An
\* element that is not found and an exception of the device make their
\* action fail in this way: the call returns a boolean in every case.
C29_StepStopsAtFirstFailure ==
    stepCall.called =>
        LET actions == stepCall.actions
            devs == stepCall.devs
            executed == stepCall.executed
            failing == {k \in 1..Len(actions) : ActionFails(actions[k], devs[k])}
        IN  /\ stepCall.ok \in BOOLEAN
            /\ Len(executed) <= Len(actions)
            /\ \A i \in 1..Len(executed) : executed[i] = i
            /\ stepCall.ok <=> failing = {}
            /\ failing = {} => Len(executed) = Len(actions)
            /\ failing # {} =>
                  /\ Len(executed) \in failing
                  /\ \A k \in failing : Len(executed) <= k

\* a step of three actions whose second action met an exception of the
\* device: the third was not executed
C29_Witness ==
    /\ stepCall.called
    /\ Len(stepCall.actions) = 3
    /\ stepCall.devs[1] = "found"
    /\ stepCall.devs[2] = "raises"
    /\ stepCall.executed = <<1, 2>>
    /\ ~stepCall.ok

(***************************************************************************)
(* Attempts that detect no known screen                                    *)
(***************************************************************************)
\* the detection that opens an attempt of navigate_to
AttemptDetection == navPc = "detect" /\ detectCalls' = detectCalls + 1

\* C30: in navigate_to an attempt whose opening detection is unknown adds
\* exactly one to recovery_attempts, executes no action, plans no path and
\* takes no step, and uses up its attempt: the next attempt follows, or
\* after attempt max_attempts the code behind the loop.  An attempt that
\* detects a known screen returns or goes on to execute a step, and a step
\* executes at least one action; so a call that ends behind the loop
\* without any action executed had unknown detected by every attempt, and
\* its result is failed with zero steps completed and recovery_attempts
\* equal to max_attempts.
C30_UnknownAttemptsAreCounted ==
    [][/\ (AttemptDetection /\ lastDetection' = "unknown") =>
            /\ recoveryAttempts' = recoveryAttempts + 1
            /\ actionsExecuted' = actionsExecuted
            /\ UNCHANGED <<navPath, stepIdx, allStepsTaken, totalStepsExecuted, navResult>>
            /\ attempt <= maxAttempts
            /\ IF attempt < maxAttempts
               THEN attempt' = attempt + 1 /\ navPc' = "detect"
               ELSE navPc' = "exhausted"
       /\ (AttemptDetection /\ lastDetection' # "unknown") =>
            \/ navPc' = "done" /\ navResult'.ret.status # "failed"
            \/ navPc' = "exec"
       /\ (navPc = "exec" /\ navPc' # "exec") => actionsExecuted' > actionsExecuted
       /\ (navPc = "exhausted" /\ navPc' = "done" /\ actionsExecuted = 0) =>
            /\ navResult'.ret.status = "failed"
            /\ navResult'.ret.steps_completed = 0
            /\ navResult'.ret.recovery_attempts = maxAttempts
            /\ recoveryAttempts = maxAttempts
            /\ detectCalls' = maxAttempts + 1
      ]_vars

\* a call with three attempts that all detected unknown, returned
C30_Witness ==
    /\ navPc = "done" /\ maxAttempts = 3
    /\ actionsExecuted = 0 /\ detectCalls = 4
    /\ firstDetection = "unknown"
    /\ navResult.ret.status = "failed"
    /\ navResult.ret.recovery_attempts = 3

\* ---------------------------------------------------------------------
\* navigate_to: the steps reported by a result

\* _execute_step returned True for the step in hand: the only branch of the
\* step loop that leaves recovery_attempts alone (lines 312-318)
StepSucceeded == navPc = "exec" /\ recoveryAttempts' = recoveryAttempts

\* C31: while a call of navigate_to runs, the list of steps taken grows by
\* exactly the step in hand when all actions of that step succeeded, and is
\* left alone by every other step of the call (failed steps, detections,
\* verifications that deviate, new attempts); the result of the call reports
\* that list as path_taken and its length as steps_completed
C31_PathTakenIsStepsSucceeded ==
    [][ /\ StepSucceeded => allStepsTaken' = Append(allStepsTaken, navPath[stepIdx])
        /\ (navPc \in {"detect", "exec", "verify", "exhausted"} /\ ~StepSucceeded) =>
              allStepsTaken' = allStepsTaken
        /\ (navResult'.called /\ ~navResult.called) =>
              /\ navResult'.ret.path_taken = allStepsTaken'
              /\ navResult'.ret.steps_completed = Len(navResult'.ret.path_taken)
      ]_vars

\* a result that reports two steps of two attempts: the first attempt was
\* given up after its first step, and the second attempt planned anew from
\* another screen than the one that step leads to
C31_Witness ==
    /\ navResult.called
    /\ navResult.ret.steps_completed = 2
    /\ navResult.ret.recovery_attempts >= 1
    /\ navResult.ret.path_taken[1].to_screen # navResult.ret.path_taken[2].from_screen

\* ---------------------------------------------------------------------
\* find_path and the weights of the edges

\* ways of giving the edges of a graph other cost and reliability values,
\* by the edge's place k in its list: as declared, growing with k, falling
\* with k
WeightSchemes == {"declared", "rising", "falling"}

Reweighted(edge, k, scheme) ==
    IF scheme = "rising" THEN Edge(edge.to_screen, edge.actions, k, 100 - k)
    ELSE IF scheme = "falling" THEN Edge(edge.to_screen, edge.actions, 20 - k, 50 + k)
    ELSE edge

\* the graph g with the same screens and the same edges in the same order,
\* and the weights of the scheme
Reweigh(g, scheme) ==
    [s \in DOMAIN g |-> [k \in 1..Len(g[s]) |-> Reweighted(g[s][k], k, scheme)]]

\* a path's steps without the weights of their edges
Topology(path) ==
    IF path.none THEN None
    ELSE [k \in 1..Len(path.steps) |->
             <<path.steps[k].from_screen, path.steps[k].to_screen,
               path.steps[k].edge.actions>>]

RECURSIVE SumCost(_)
SumCost(steps) ==
    IF steps = <<>> THEN 0 ELSE steps[1].edge.cost + SumCost(Tail(steps))

\* the factors of the product reliability * edge.reliability, in step order
Factors(steps) == [k \in 1..Len(steps) |-> steps[k].edge.reliability]

WeightsAddUp(path) ==
    path.none \/ (/\ path.total_cost = SumCost(path.steps)
                  /\ path.estimated_reliability = Factors(path.steps))

\* C32: find_path chooses the same steps in every graph that differs from
\* the queried graph only in the cost and reliability of its edges, and the
\* path it returns carries the sum of the costs and the product of the
\* reliabilities of the edges of its steps
C32_PathIgnoresWeights ==
    pathResult.called =>
        /\ WeightsAddUp(pathResult.ret)
        /\ \A scheme \in WeightSchemes :
              LET other == FindPath(Reweigh(graph, scheme), pathFrom, pathTo) IN
              /\ Topology(other) = Topology(pathResult.ret)
              /\ WeightsAddUp(other)

\* a query with two routes of two steps, where under falling weights the
\* route through the edge declared second costs less than the path returned
C32_Witness ==
    /\ pathResult.called
    /\ ~pathResult.ret.none
    /\ Len(pathResult.ret.steps) = 2
    /\ LET g == Reweigh(graph, "falling")
           other == FindPath(g, pathFrom, pathTo)
       IN  /\ Len(EdgesOf(g, pathFrom)) = 2
           /\ \E k \in 1..Len(EdgesOf(g, g[pathFrom][2].to_screen)) :
                 /\ g[g[pathFrom][2].to_screen][k].to_screen = pathTo
                 /\ g[pathFrom][2].cost + g[g[pathFrom][2].to_screen][k].cost
                        < other.total_cost
           /\ other.total_cost # pathResult.ret.total_cost

(***************************************************************************)
(* find_path_to_any on the graphs of the path check.  The target sets are  *)
(* the two safe-state sets and every set of at most MaxTargets ids among   *)
(* the screens of the small graphs and one id outside every graph.  The    *)
(* small graphs are all the graphs over their three screens, so a call     *)
(* from one of the three stands for the calls from the other two; calls on *)
(* the merged graph start from each of its ids.                            *)
(***************************************************************************)
MaxTargets == 2

\* the subsets of S with at most n members
RECURSIVE SetsUpTo(_, _)
SetsUpTo(S, n) ==
    IF n = 0 THEN {{}}
    ELSE LET smaller == SetsUpTo(S, n - 1) IN
         smaller \cup {T \cup {x} : T \in smaller, x \in S}

TargetSets ==
    {WARMUP_SAFE_STATES, LOGIN_SAFE_STATES}
        \cup SetsUpTo(SmallScreens \cup {SinkScreen, "unknown"}, MaxTargets)

FromIds(g) == IF g = FullGraph THEN QueryIds(g) ELSE {"home_feed", "unknown"}

FindPathToAnyCall ==
    \E a \in FromIds(graph), targets \in TargetSets :
        /\ ~pathResult.called
        /\ pathFrom' = a
        /\ pathTargets' = targets
        /\ pathResult' = Returned(FindPathToAny(graph, a, targets))
        /\ UNCHANGED <<graph, pathTo, hasPathResult>>
        /\ UNCHANGED <<scoreVars, navVars, detVars, popVars, extVars>>

AnyInit == PathInit

AnyNext == FindPathToAnyCall

AnySpec == AnyInit /\ [][AnyNext]_vars

\* C33: find_path_to_any returns the empty path when from_screen is a
\* target; otherwise a directed path of the graph from from_screen to a
\* target, with no more edges than there are to the nearest target, when a
\* target is reachable, and no path when none is; for a single target it
\* returns what find_path returns for that target
C33_FindPathToAnyNearest ==
    pathResult.called =>
        LET r == pathResult.ret
            reached == {t \in pathTargets : Reachable(graph, pathFrom, t)}
        IN  /\ pathFrom \in pathTargets =>
                  r = NavigationPath(<<>>, 0, <<>>)
            /\ (pathFrom \notin pathTargets /\ reached # {}) =>
                  /\ ~r.none
                  /\ Len(r.steps) >= 1
                  /\ r.steps[Len(r.steps)].to_screen \in pathTargets
                  /\ IsPathOf(graph, r.steps, pathFrom, r.steps[Len(r.steps)].to_screen)
                  /\ \A t \in reached : Len(r.steps) <= Distance(graph, pathFrom, t)
            /\ reached = {} => r.none
            /\ \A t \in pathTargets :
                  pathTargets = {t} => r = FindPath(graph, pathFrom, t)

\* a call with two reachable targets at different distances, the nearer one
\* two edges away: the path returned ends in the nearer one
C33_Witness ==
    /\ pathResult.called
    /\ pathFrom \notin pathTargets
    /\ ~pathResult.ret.none
    /\ Len(pathResult.ret.steps) = 2
    /\ \E t \in pathTargets :
          /\ Reachable(graph, pathFrom, t)
          /\ Distance(graph, pathFrom, t) > 2

(***************************************************************************)
(* The way of a pattern from popup_configure or the configuration file to  *)
(* the watcher loop's handling of it, without the threads and the lock.    *)
(***************************************************************************)
\* a pattern supplied with the type toast and a dismiss selector
DeclaredToast ==
    [name |-> "rate_limit_toast", type |-> "toast",
     detect_xpath |-> "//*[contains(@text, 'Try again later')]",
     dismiss_xpath |-> "//*[@text='OK']"]

\* the patterns arguments of popup_configure
DismissInputs == {<<DeclaredToast>>, <<SaveLoginInfo>>, <<NoDetectKey, EmptyDetect>>}

\* every pattern that can be supplied, by either way
SuppliedPatterns ==
    UNION {{list[k] : k \in 1..Len(list)} : list \in DismissInputs \cup FileContents}

\* the type a supplied pattern of that name was declared with
DeclaredType(name) ==
    LET p == CHOOSE p \in SuppliedPatterns : Get(p, "name", "unnamed") = name
    IN  Get(p, "type", "popup")

\* what the device shows when the loop comes to a pattern
Shown == {"nothing", "pattern", "pattern and dismiss element"}

\* lines 1314-1401: the loop body for one pattern
HandlePattern(pattern, shown) ==
    LET name == Get(pattern, "name", "unnamed")
        detect_xpath == Get(pattern, "detect_xpath", "")
        dismiss_xpath == Get(pattern, "dismiss_xpath", "")
        pattern_type == Get(pattern, "type", "popup")
        dismissed == dismiss_xpath # "" /\ shown = "pattern and dismiss element"
    IN  IF detect_xpath = "" \/ shown = "nothing"
        THEN [name |-> name, recorded |-> FALSE, clicked |-> FALSE]
        ELSE IF pattern_type = "toast"
        THEN [name |-> name, recorded |-> TRUE, type |-> "toast", clicked |-> FALSE]
        ELSE [name |-> name, recorded |-> TRUE, type |-> "popup", clicked |-> dismissed]

\* popup_configure
DismissConfigure ==
    \E patterns \in DismissInputs, append \in BOOLEAN :
        LET list == ConfigureAdd(ConfigureBase(append), patterns) IN
        /\ Len(list) <= MaxPatterns
        /\ popup_patterns' = Present(list)
        /\ UNCHANGED <<popup_history, popup_threads, popup_enabled, popup_lock,
                       default_patterns_loaded, patternsFile, driverCached, loops,
                       callPc, callsMade, callBudget, recordBudget, appended, clock>>
        /\ UNCHANGED <<scoreVars, pathVars, navVars, detVars, extVars>>

\* the locked section of _auto_setup_popup_watcher
DismissAutoSetup ==
    /\ popup_patterns' = AutoSetupPatterns
    /\ default_patterns_loaded' = AutoSetupLoaded
    /\ UNCHANGED <<popup_history, popup_threads, popup_enabled, popup_lock,
                   patternsFile, driverCached, loops,
                   callPc, callsMade, callBudget, recordBudget, appended, clock>>
    /\ UNCHANGED <<scoreVars, pathVars, navVars, detVars, extVars>>

\* the loop comes to a pattern of the list
DismissHandle ==
    \E k \in 1..PatternCount, shown \in Shown :
        /\ handled' = Returned(HandlePattern(popup_patterns.value[k], shown))
        /\ UNCHANGED <<scoreVars, pathVars, navVars, detVars, popVars, exceptHandle>>

DismissInit == PopupStart /\ callBudget = 0 /\ recordBudget = 0

DismissNext == DismissConfigure \/ DismissAutoSetup \/ DismissHandle

DismissSpec == DismissInit /\ [][DismissNext]_vars

\* C34: the loop never clicks the dismiss selector of a pattern that was
\* supplied with the type toast, by popup_configure or by the configuration
\* file, and records such a pattern as a toast
C34_ToastNeverDismissed ==
    (handled.called /\ DeclaredType(handled.ret.name) = "toast") =>
        /\ ~handled.ret.clicked
        /\ handled.ret.recorded => handled.ret.type = "toast"

(***************************************************************************)
(* Threads calling detect_screen of one detector at the same time.         *)
(* _get_ui_hierarchy runs under self._lock (line 179); _extract_elements   *)
(* and the scoring run outside it, so the threads interleave between the   *)
(* locked section, the test of self._cached_elements (line 215), the       *)
(* assignment to it (line 258) and the scoring.                            *)
(***************************************************************************)
MaxRaceCalls == 2

\* what device.dump_hierarchy() gives the threads
RaceDumps ==
    {Hierarchy({}), Hierarchy({AllowButton}), Hierarchy(DetectNodePool), DumpFailed}

\* line 86 with lines 177-199: the locked section, and lines 87-94 when it
\* returns None
CallerGet(c) ==
    \E force_refresh \in BOOLEAN :
    \E dump \in (IF CacheValid(force_refresh) THEN {cachedHierarchy} ELSE RaceDumps) :
        LET got == GetUiHierarchy(force_refresh, dump) IN
        /\ callers[c].pc = "idle"
        /\ callers[c].calls < MaxRaceCalls
        /\ cachedHierarchy' = got.hierarchy
        /\ cacheTimestamp' = got.timestamp
        /\ cachedElements' = got.elements
        /\ callers' = [callers EXCEPT ![c] =
                          [pc |-> IF got.ret.none THEN "idle" ELSE "test",
                           calls |-> @.calls + 1,
                           hierarchy |-> got.ret,
                           elements |-> {}]]
        /\ detResult' = (IF got.ret.none
                         THEN Returned(UnknownResult("instagram",
                                                     "Failed to dump UI hierarchy"))
                         ELSE detResult)
        /\ UNCHANGED <<detectionCount, unknownCount, now, detCallNo, detCall, detScoring>>
        /\ UNCHANGED <<scoreVars, pathVars, navVars, popVars, exceptRace>>

\* lines 214-216: if self._cached_elements: return self._cached_elements
CallerExtractTest(c) ==
    /\ callers[c].pc = "test"
    /\ callers' = [callers EXCEPT ![c] =
                      IF cachedElements # {}
                      THEN [@ EXCEPT !.pc = "score", !.elements = cachedElements]
                      ELSE [@ EXCEPT !.pc = "store"]]
    /\ UNCHANGED <<detVars, scoreVars, pathVars, navVars, popVars, exceptRace>>

\* lines 218-259: the elements of the thread's own hierarchy, stored in the
\* detector and returned
CallerExtractStore(c) ==
    /\ callers[c].pc = "store"
    /\ cachedElements' = Extracted[callers[c].hierarchy.nodes]
    /\ callers' = [callers EXCEPT ![c].pc = "score",
                                  ![c].elements = Extracted[callers[c].hierarchy.nodes]]
    /\ UNCHANGED <<cachedHierarchy, cacheTimestamp, detectionCount, unknownCount, now,
                   detCallNo, detCall, detScoring, detResult>>
    /\ UNCHANGED <<scoreVars, pathVars, navVars, popVars, exceptRace>>

\* lines 100-164, for app_id "instagram" with the system signatures
CallerScore(c) ==
    LET signatures == GetSignatures(Registry, "instagram", TRUE)
        scores == ScoreAll(signatures, callers[c].elements)
    IN  /\ callers[c].pc = "score"
        /\ callers' = [callers EXCEPT ![c].pc = "idle"]
        /\ detScoring' = [called |-> TRUE, elements |-> callers[c].elements,
                          signatures |-> signatures]
        /\ detectionCount' = detectionCount + 1
        /\ IF Len(scores) = 0
           THEN /\ unknownCount' = unknownCount + 1
                /\ detResult' = Returned(UnknownResult("instagram", PyNone))
           ELSE /\ unknownCount' = unknownCount
                /\ detResult' = Returned(WinnerResult(scores))
        /\ UNCHANGED <<cachedHierarchy, cacheTimestamp, cachedElements, now,
                       detCallNo, detCall>>
        /\ UNCHANGED <<scoreVars, pathVars, navVars, popVars, exceptRace>>

RaceInit == DetectInit

RaceNext ==
    \/ \E c \in CallerIds : CallerGet(c)
    \/ \E c \in CallerIds : CallerExtractTest(c)
    \/ \E c \in CallerIds : CallerExtractStore(c)
    \/ \E c \in CallerIds : CallerScore(c)
    \/ Tick

RaceSpec == RaceInit /\ [][RaceNext]_vars

\* C35: whatever the interleaving of the calls, a non-empty cached element
\* set is the element set of the cached hierarchy, and the element set a
\* call scores is the element set of the hierarchy that call obtained
C35_ElementsOfOwnSnapshot ==
    /\ cachedElements # {} =>
          /\ ~cachedHierarchy.none
          /\ cachedElements = Extracted[cachedHierarchy.nodes]
    /\ \A c \in CallerIds :
          callers[c].pc = "score" =>
              callers[c].elements = Extracted[callers[c].hierarchy.nodes]

(***************************************************************************)
(* detect_screen's choice among candidates, on a registry with more than   *)
(* five signatures that can score at once, several of them with the same   *)
(* score.  Lines 100-164 on every snapshot over TieNodes.                  *)
(***************************************************************************)
TieTexts == {"Home", "Search", "Reels", "Profile", "Like", "Allow", "Deny"}

TieNodes == {Node("", "", text, "android.widget.TextView", "false") : text \in TieTexts}

TieSignature(app_id, screen_id, required, priority) ==
    ScreenSignature(app_id, screen_id, required, <<>>, <<>>, <<>>, priority, PyNone, FALSE)

TieRegistry ==
    Register(Register(<<>>, "instagram",
                      <<TieSignature("instagram", "home_feed", <<"text:Home">>, 25),
                        TieSignature("instagram", "explore_grid", <<"text:Search">>, 30),
                        TieSignature("instagram", "reels_tab", <<"text:Reels">>, 30),
                        TieSignature("instagram", "profile_page",
                                     <<"text:Profile", "text:Like">>, 40),
                        TieSignature("instagram", "peek_view", <<"text:Like">>, 100),
                        TieSignature("instagram", "dm_inbox",
                                     <<"text:Home", "text:Search">>, 60)>>),
             "android_system",
             <<TieSignature("android_system", "system_alert", <<"text:Allow">>, 90),
               TieSignature("android_system", "permission_dialog",
                            <<"text:Allow", "text:Deny">>, 100)>>)

\* lines 111-118 without the table of scores
ScoreEach(signatures, elems) ==
    LET scored == [k \in 1..Len(signatures) |->
                     LET r == ScoreSignature(signatures[k], elems) IN
                     [screen_id |-> signatures[k].screen_id, score |-> r.score,
                      sig |-> signatures[k], matched |-> r.matched]]
    IN  SelectSeq(scored, LAMBDA e : HasScore(e.score))

TieDetect ==
    \E nodes \in SUBSET TieNodes, app_id \in {"instagram", "android_system"},
       include_system \in BOOLEAN :
        LET elems == ExtractFresh(nodes)
            signatures == GetSignatures(TieRegistry, app_id, include_system)
            scores == ScoreEach(signatures, elems)
        IN  /\ ~detResult.called
            /\ detCall' = [called |-> TRUE, app_id |-> app_id, force_refresh |-> TRUE,
                           include_system |-> include_system]
            /\ detCallNo' = detCallNo + 1
            /\ cachedHierarchy' = Hierarchy(nodes)
            /\ cacheTimestamp' = now
            /\ cachedElements' = elems
            /\ detScoring' = [called |-> TRUE, elements |-> elems,
                              signatures |-> signatures]
            /\ detectionCount' = detectionCount + 1
            /\ IF Len(scores) = 0
               THEN /\ unknownCount' = unknownCount + 1
                    /\ detResult' = Returned(UnknownResult(app_id, PyNone))
               ELSE /\ unknownCount' = unknownCount
                    /\ detResult' = Returned(WinnerResult(scores))
            /\ UNCHANGED now
            /\ UNCHANGED <<scoreVars, pathVars, navVars, popVars, extVars>>

TieInit == DetectInit

TieNext == TieDetect

TieSpec == TieInit /\ [][TieNext]_vars

\* the candidate signatures of the call with their scores on its elements
ScoreOn(signature) == ScoreSignature(signature, detScoring.elements).score

SameScore(a, b) == a.num * b.den = b.num * a.den

HigherScore(a, b) == a.num * b.den > b.num * a.den

Candidates == {detScoring.signatures[k] : k \in 1..Len(detScoring.signatures)}

TopScorers ==
    {x \in Candidates :
        /\ HasScore(ScoreOn(x))
        /\ \A y \in Candidates : ~HigherScore(ScoreOn(y), ScoreOn(x))}

\* C36: a call that has a winner returns a signature of the greatest score,
\* and of the greatest priority among the signatures of that score; its
\* confidence is the score of the first candidate, and the candidates are at
\* most 5, each with a score above 0 and none with a greater score than the
\* one before it
C36_TieGoesToPriority ==
    (detResult.called /\ detScoring.called /\ detResult.ret.screen_id # "unknown") =>
        LET r == detResult.ret IN
        /\ \E w \in TopScorers :
              /\ w.screen_id = r.screen_id
              /\ SameScore(ScoreOn(w), r.confidence)
              /\ \A x \in TopScorers : x.priority <= w.priority
        /\ Len(r.candidates) >= 1
        /\ Len(r.candidates) <= 5
        /\ r.candidates[1].screen_id = r.screen_id
        /\ r.candidates[1].score = r.confidence
        /\ \A k \in 1..Len(r.candidates) : HasScore(r.candidates[k].score)
        /\ \A k \in 1..(Len(r.candidates) - 1) :
              ~HigherScore(r.candidates[k + 1].score, r.candidates[k].score)

\* more than five signatures score above 0, three of them share the
\* greatest score and differ in priority, and five candidates are returned
C36_Witness ==
    /\ detResult.called /\ detScoring.called
    /\ detResult.ret.screen_id # "unknown"
    /\ Cardinality({x \in Candidates : HasScore(ScoreOn(x))}) > 5
    /\ Cardinality({x.priority : x \in TopScorers}) >= 3
    /\ Len(detResult.ret.candidates) = 5

\* ---------------------------------------------------------------------
\* navigate_to: the final screen of a result

\* C37: a result with status success or already_there reports the target as
\* its final screen, and when verify_each_step is on the latest detection
\* of the call gave the target
C37_SuccessIsOnTarget ==
    (navResult.called /\ Success(navResult.ret)) =>
        /\ navResult.ret.final_screen = navResult.ret.target_screen
        /\ navResult.ret.target_screen = navTarget
        /\ verifyEachStep => lastDetection = navTarget

\* success after a plan of at least two steps, each verified, in a call
\* that had to recover once
C37_Witness ==
    /\ navResult.called
    /\ navResult.ret.status = "success"
    /\ verifyEachStep
    /\ Len(navPath) >= 2
    /\ stepIdx = Len(navPath)
    /\ navResult.ret.recovery_attempts = 1
    /\ lastDetection = navTarget

\* C38 as stated: a result with status failed never reports the target as
\* its final screen
C38_Original ==
    (navResult.called /\ navResult.ret.status = "failed") =>
        navResult.ret.final_screen # navResult.ret.target_screen

\* C38: a result with status failed comes after max_attempts attempts, each
\* of which ended in a recovery (unknown screen, failed step or deviation);
\* its final screen is what one more detection, made after the last attempt,
\* gave, whichever screen that is
C38_FailedReportsLastDetection ==
    (navResult.called /\ navResult.ret.status = "failed") =>
        /\ navResult.ret.final_screen = lastDetection
        /\ navResult.ret.recovery_attempts = maxAttempts
        /\ attempt = maxAttempts
        /\ navResult.ret.target_screen = navTarget

\* a failed result whose final screen is the target: the last attempt's
\* step was executed and the detection after the loop found the target
C38_Witness ==
    /\ navResult.called
    /\ navResult.ret.status = "failed"
    /\ navResult.ret.final_screen = navTarget
    /\ navTarget # "unknown"
    /\ maxAttempts >= 1
    /\ navResult.ret.steps_completed >= 1

\* ---------------------------------------------------------------------
\* the positions at which the watcher loop asks for _popup_lock: to read
\* the patterns (line 1267) and to append a record (lines 1294 and 1355,
\* 1398)
LoopLockPcs == {"read_patterns", "toast_record", "append"}

\* C39: popup_disable is never at its join, holding _popup_lock, while the
\* thread it joins is alive and waiting for that lock
C39_NoJoinAgainstLockWaiter ==
    ~(/\ popup_lock
      /\ callPc = "join"
      /\ popup_threads.present
      /\ IsAlive(JoinedThread)
      /\ loops[JoinedThread].pc \in LoopLockPcs)

\* ---------------------------------------------------------------------
\* the navigation graph against the registered signatures

\* C40: every screen an edge of the navigator's graph leads to, and every
\* warmup and login safe state, is a screen id detect_screen can return, so
\* that the verification of every step of a plan can find the step's
\* to_screen
C40_GraphScreensAreDetectable ==
    /\ WARMUP_SAFE_STATES \cup LOGIN_SAFE_STATES \subseteq DetectableScreens
    /\ navPc = "verify" => navPath[stepIdx].to_screen \in DetectableScreens
    /\ navPc = "exec" => ToScreens(NavigatorGraph) \subseteq DetectableScreens
====
